---- MODULE Spec2Model ----
(***************************************************************************)
(* Rollout engine of the Teltonika firmware updater: the start-rollout     *)
(* (POST) and cancel-rollout (DELETE) handlers, the background task        *)
(* processBatchUpdate with its per-router pipelines, the inventory store   *)
(* rows they write and the event bus they emit on.                         *)
(*                                                                         *)
(* The runtime is single-threaded and cooperative: code between two awaits *)
(* runs atomically.  Every action below is one such run-to-the-next-await  *)
(* segment.  The continuation of `await Promise.all(...)` is modelled as a *)
(* step of its own, taken some time after the last pipeline of the batch   *)
(* has returned.                                                           *)
(***************************************************************************)
EXTENDS Integers, Sequences, FiniteSets, TLC

(***************************************************************************)
(* Bounds of the model.                                                    *)
(***************************************************************************)
NumRouters == 2      \* rows of the routers table
MaxJobs == 2         \* rollouts started in one behaviour
MaxIds == 2          \* longest routerIds list an operator passes
MaxBatchSize == 2    \* largest batchSize an operator passes
MaxWait == 2         \* largest batch_wait_minutes setting
MaxCancels == 1      \* cancel requests served per job id
MaxConns == 1        \* event-stream connections opened in one behaviour
MaxScans == 1        \* inventory scans started in one behaviour
MaxDigit == 1        \* largest digit in a component of a firmware version
MaxImport == 2       \* longest list of records passed to insertMany
MaxCallbacks == 3    \* callbacks subscribed to the event bus in a call of emit
ChunkOverflow == 1   \* routers of a scan beyond one full chunk

NULL == "null"
NOW == "now"

RouterIds == 1..NumRouters
\* an id that is in no row of the routers table
MissingId == 0
JobIds == 1..MaxJobs
\* the scan engine's reserved job id ('check')
CheckJobId == 0
\* the job id of the greeting on a connection without jobId ('all')
AllJobsId == -1
Versions == {"v1", "v2"}

VARIABLES
  routers,          \* routers table: id -> row
  update_history,   \* update_history table: sequence of rows, id = index
  batch_jobs,       \* batch_jobs table: sequence of rows, id = index
  settings,         \* settings table: global credentials, batch_wait_minutes
  activeBatches,    \* Map<jobId, {abort}>
  tasks,            \* locals of each processBatchUpdate call, by job id
  pipes,            \* per job, per candidate index: the router pipeline
  scans,            \* locals of each scan request, with its per-router checks
  events,           \* events emitted so far, per job id, in emit order
  listeners,        \* event bus: jobId -> set of subscribed connections
  globalListeners,  \* event bus: connections subscribed to every job
  conns,            \* event-stream connections: "idle", "open", "closed"
  delivered,        \* per connection: the events written to its stream, in order
  verifyCall,       \* a verifyUpdateAfterReboot call made on its own: arguments, result
  libCall,          \* a call of a library function made on its own: input, output
  lastResponse      \* the response of the latest operator command

vars == <<routers, update_history, batch_jobs, settings, activeBatches, tasks,
          pipes, scans, events, listeners, globalListeners, conns, delivered,
          verifyCall, libCall, lastResponse>>

(***************************************************************************)
(* JavaScript helpers.                                                     *)
(***************************************************************************)
\* a || b on nullable strings
Or(a, b) == IF a # NULL THEN a ELSE b

Min(a, b) == IF a < b THEN a ELSE b

\* Math.ceil(n / d) for n >= 0, d > 0
Ceil(n, d) == (n + d - 1) \div d

\* Math.round(x / y * 100) for x, y >= 0, y > 0
RoundPercent(x, y) == (200 * x + y) \div (2 * y)

\* a partial update of a row: the named columns change, the others stay
Merge(row, updates) ==
  [f \in DOMAIN row |-> IF f \in DOMAIN updates THEN updates[f] ELSE row[f]]

(***************************************************************************)
(* Inventory store (db.ts).                                                *)
(***************************************************************************)
\* getById over a list of ids, with the ids of no row filtered out
RECURSIVE routerDb_getByIds(_, _)
routerDb_getByIds(rt, ids) ==
  IF ids = <<>> THEN <<>>
  ELSE (IF Head(ids) \in DOMAIN rt THEN <<rt[Head(ids)]>> ELSE <<>>)
       \o routerDb_getByIds(rt, Tail(ids))

RECURSIVE RowsFrom(_, _, _)
\* the rows with the given status, in id (insertion) order, from id k on
RowsFrom(rt, status, k) ==
  IF k > NumRouters THEN <<>>
  ELSE (IF rt[k].status = status THEN <<rt[k]>> ELSE <<>>) \o RowsFrom(rt, status, k + 1)

routerDb_getByStatus(rt, status) == RowsFrom(rt, status, 1)

\* every row, in device_name order (the names sort as the ids do)
routerDb_getAll(rt) == [k \in 1..NumRouters |-> rt[k]]

routerDb_updateStatus(rt, id, status) ==
  [r \in DOMAIN rt |-> IF r = id THEN Merge(rt[r], [status |-> status]) ELSE rt[r]]

\* updateFirmwareInfo that leaves available_firmware as it was
routerDb_updateFirmwareInfo_KeepAvailable(rt, id, current, available, status) ==
  [r \in DOMAIN rt |->
     IF r = id THEN Merge(rt[r], [current_firmware |-> current, status |-> status])
     ELSE rt[r]]

routerDb_updateFirmwareInfo(rt, id, current, available, status) ==
  [r \in DOMAIN rt |->
     IF r = id
     THEN Merge(rt[r], [current_firmware |-> current, available_firmware |-> available,
                        status |-> status])
     ELSE rt[r]]

updateHistoryDb_insert(hist, entry) == Append(hist, entry)

updateHistoryDb_update(hist, id, updates) ==
  [h \in DOMAIN hist |-> IF hist[h].id = id THEN Merge(hist[h], updates) ELSE hist[h]]

\* no global credentials: globalCreds?.username and ?.password are undefined
NoCreds == [username |-> NULL, password |-> NULL]

settingsDb_getGlobalCredentials(st) ==
  IF st.global_username # NULL /\ st.global_password # NULL
  THEN [username |-> st.global_username, password |-> st.global_password]
  ELSE NoCreds

settingsDb_getBatchWaitTime(st) == st.batch_wait_minutes

ActiveJobIds(jobs) == {j \in DOMAIN jobs : jobs[j].status \in {"pending", "running"}}

\* getActive with the status filter narrowed to 'pending'
batchJobDb_getActive_PendingOnly(jobs) ==
  IF {j \in DOMAIN jobs : jobs[j].status = "pending"} = {} THEN 0
  ELSE CHOOSE j \in DOMAIN jobs : jobs[j].status = "pending"

\* the most recently created pending or running job: its id, or 0 when none
batchJobDb_getActive(jobs) ==
  IF ActiveJobIds(jobs) = {} THEN 0
  ELSE CHOOSE j \in ActiveJobIds(jobs) : \A k \in ActiveJobIds(jobs) : k <= j

batchJobDb_insert(jobs, job) ==
  Append(jobs, [id |-> job.id, status |-> job.status, batch_size |-> job.batch_size,
                total_routers |-> job.total_routers, completed_routers |-> 0,
                failed_routers |-> 0, started_at |-> NULL, completed_at |-> NULL])

batchJobDb_update(jobs, id, updates) ==
  [j \in DOMAIN jobs |-> IF jobs[j].id = id THEN Merge(jobs[j], updates) ELSE jobs[j]]

(***************************************************************************)
(* Event bus (event-emitter).                                              *)
(***************************************************************************)
\* the element of a one-element set; One({F(s) : s \in {s0}}) is F(s0) with
\* s0 evaluated once, as an argument is when the code calls a function
One(S) == CHOOSE x \in S : TRUE

Event(type, jobId, data) == [type |-> type, jobId |-> jobId, data |-> data]

\* emit: the event is handed, in this call, to every subscriber of its job
\* id and to every global subscriber; `events` keeps the emit order
\* an emit that puts the new event in front of what a stream already holds
Emit_NewestFirst(s0, type, jobId, data) ==
  One({
  LET event == Event(type, jobId, data)
      subscribers == (IF jobId \in DOMAIN s.listeners THEN s.listeners[jobId] ELSE {})
                       \cup s.globalListeners
  IN [s EXCEPT !.events[jobId] = Append(@, event),
               !.delivered = [c \in DOMAIN @ |->
                                IF c \in subscribers
                                THEN <<Head(@[c]), event>> \o Tail(@[c])
                                ELSE @[c]]]
  : s \in {s0}})

Emit(s0, type, jobId, data) ==
  One({
  LET event == Event(type, jobId, data)
      subscribers == (IF jobId \in DOMAIN s.listeners THEN s.listeners[jobId] ELSE {})
                       \cup s.globalListeners
  IN [s EXCEPT !.events[jobId] = Append(@, event),
               !.delivered = [c \in DOMAIN @ |->
                                IF c \in subscribers THEN Append(@[c], event) ELSE @[c]]]
  : s \in {s0}})

\* cleanup(jobId): listeners.delete(jobId)
Cleanup(ls, jobId) == [j \in DOMAIN ls \ {jobId} |-> ls[j]]

(***************************************************************************)
(* The engine's state as one record, so that a code fragment is a function *)
(* from the state before it to the state after it.                         *)
(***************************************************************************)
Cur ==
  [routers |-> routers, update_history |-> update_history, batch_jobs |-> batch_jobs,
   activeBatches |-> activeBatches, tasks |-> tasks, pipes |-> pipes, scans |-> scans,
   events |-> events, listeners |-> listeners, globalListeners |-> globalListeners,
   delivered |-> delivered]

SetState(s0) ==
  \E s \in {s0} :
    /\ routers' = s.routers
    /\ update_history' = s.update_history
    /\ batch_jobs' = s.batch_jobs
    /\ activeBatches' = s.activeBatches
    /\ tasks' = s.tasks
    /\ pipes' = s.pipes
    /\ scans' = s.scans
    /\ events' = s.events
    /\ listeners' = s.listeners
    /\ globalListeners' = s.globalListeners
    /\ delivered' = s.delivered


(***************************************************************************)
(* Remote shell service (ssh-service.ts), as functions of what the device  *)
(* answers.                                                                *)
(***************************************************************************)
MAX_RETRIES == 20

\* performUpdate: dev says how the device answers each command
\*   fileCheck: "found" | "NOT_FOUND" | "error"     (ls /tmp/firmware.img)
\*   download:  "ok" | "fail"                       (rut_fota --download_fw)
\*   verify:    "ok" | "error"                      (sysupgrade -T)
\*   upgrade:   "ok" | an error message             (sysupgrade -c)
performUpdate(dev) ==
  IF dev.fileCheck = "error"
  THEN [success |-> FALSE, error |-> "Connection refused"]
  ELSE IF dev.fileCheck = "NOT_FOUND" /\ dev.download # "ok"
  THEN [success |-> FALSE, error |-> "Firmware download failed"]
  ELSE IF dev.verify # "ok"
  THEN [success |-> FALSE, error |-> "Firmware image verification failed"]
  ELSE IF dev.upgrade \notin {"ok", "Connection closed"}
  THEN [success |-> FALSE, error |-> "Upgrade command failed"]
  ELSE [success |-> TRUE, error |-> NULL]

RECURSIVE PollFrom_OneShort(_, _, _, _)
\* a loop that gives up one poll early
PollFrom_OneShort(expectedVersion, maxRetries, dev, i) ==
  IF i + 1 >= maxRetries
  THEN [success |-> FALSE, newVersion |-> NULL,
        error |-> "Router did not come back online after update", polls |-> i]
  ELSE IF i + 1 >= dev.at /\ dev.version # NULL
  THEN [success |-> IF expectedVersion # NULL THEN dev.version = expectedVersion ELSE TRUE,
        newVersion |-> dev.version, error |-> NULL, polls |-> i + 1]
  ELSE PollFrom_OneShort(expectedVersion, maxRetries, dev, i + 1)

RECURSIVE PollFrom_AnyVersion(_, _, _, _)
\* a loop that takes any version the device reports as a success
PollFrom_AnyVersion(expectedVersion, maxRetries, dev, i) ==
  IF i >= maxRetries
  THEN [success |-> FALSE, newVersion |-> NULL,
        error |-> "Router did not come back online after update", polls |-> i]
  ELSE IF i + 1 >= dev.at /\ dev.version # NULL
  THEN [success |-> TRUE, newVersion |-> dev.version, error |-> NULL, polls |-> i + 1]
  ELSE PollFrom_AnyVersion(expectedVersion, maxRetries, dev, i + 1)

RECURSIVE PollFrom(_, _, _, _)
\* the loop of verifyUpdateAfterReboot from iteration i on; the device first
\* answers the poll number dev.at (1-based) and reports dev.version; polls
\* counts the getFirmwareVersion calls made (it is not a field of the
\* returned object)
PollFrom(expectedVersion, maxRetries, dev, i) ==
  IF i >= maxRetries
  THEN [success |-> FALSE, newVersion |-> NULL,
        error |-> "Router did not come back online after update", polls |-> i]
  ELSE IF i + 1 >= dev.at /\ dev.version # NULL
  THEN [success |-> IF expectedVersion # NULL THEN dev.version = expectedVersion ELSE TRUE,
        newVersion |-> dev.version, error |-> NULL, polls |-> i + 1]
  ELSE PollFrom(expectedVersion, maxRetries, dev, i + 1)

verifyUpdateAfterReboot(expectedVersion, maxRetries, dev) ==
  PollFrom(expectedVersion, maxRetries, dev, 0)

(***************************************************************************)
(* Rollout engine: processBatchUpdate and its pipelines.                   *)
(***************************************************************************)
\* activeBatches.get(jobId)?.abort
AbortRequested(ab, jobId) == jobId \in DOMAIN ab /\ ab[jobId].abort

\* the final status with the abort flag ignored
FinalStatus_AlwaysCompleted(ab, jobId) == "completed"

FinalStatus(ab, jobId) == IF AbortRequested(ab, jobId) THEN "cancelled" ELSE "completed"

\* the history row with firmware_after filled in with the expected version
HistoryEntry_Prefilled(historyId, router) ==
  [id |-> historyId, router_id |-> router.id, firmware_before |-> router.current_firmware,
   firmware_after |-> router.available_firmware, status |-> "running",
   error_message |-> NULL, completed_at |-> NULL]

\* the history row a pipeline inserts when it starts
HistoryEntry(historyId, router) ==
  [id |-> historyId, router_id |-> router.id, firmware_before |-> router.current_firmware,
   firmware_after |-> NULL, status |-> "running", error_message |-> NULL,
   completed_at |-> NULL]

\* the failed update without its completed_at
HistoryFailed_NoCompletedAt(error) ==
  [status |-> "failed", error_message |-> error]

HistoryFailed(error) ==
  [status |-> "failed", error_message |-> error, completed_at |-> NOW]

HistorySuccess(newVersion) ==
  [status |-> "success", firmware_after |-> newVersion, completed_at |-> NOW]

\* a failure that escapes the pipeline: Promise.all rejects and the task ends
PipelineFail_Fatal(s, jobId, k, error, eventError) ==
  LET router == s.tasks[jobId].routers[k]
      hid == s.pipes[jobId][k].historyId
  IN [s EXCEPT
        !.update_history = updateHistoryDb_update(@, hid, HistoryFailed(error)),
        !.routers = routerDb_updateStatus(@, router.id, "error"),
        !.pipes[jobId][k].pc = "done",
        !.pipes[jobId][k].success = FALSE,
        !.tasks[jobId].pc = "done"]

\* a pipeline ends failed: history row, router status, router_failed event
\* a failure that is written to the history but not announced
PipelineFail_Silent(s0, jobId, k, error, eventError) ==
  One({
  LET router == s.tasks[jobId].routers[k]
      hid == s.pipes[jobId][k].historyId
  IN [s EXCEPT
        !.update_history = updateHistoryDb_update(@, hid, HistoryFailed(error)),
        !.routers = routerDb_updateStatus(@, router.id, "error"),
        !.pipes[jobId][k].pc = "done",
        !.pipes[jobId][k].success = FALSE]
  : s \in {s0}})

\* a failure that leaves the router's status as it is
PipelineFail_KeepsStatus(s0, jobId, k, error, eventError) ==
  One({
  LET router == s.tasks[jobId].routers[k]
      hid == s.pipes[jobId][k].historyId
      s1 == [s EXCEPT
               !.update_history = updateHistoryDb_update(@, hid, HistoryFailed(error)),
               !.pipes[jobId][k].pc = "done",
               !.pipes[jobId][k].success = FALSE]
  IN Emit(s1, "router_failed", jobId, [routerId |-> router.id, error |-> eventError])
  : s \in {s0}})

PipelineFail(s0, jobId, k, error, eventError) ==
  One({
  LET router == s.tasks[jobId].routers[k]
      hid == s.pipes[jobId][k].historyId
      s1 == [s EXCEPT
               !.update_history = updateHistoryDb_update(@, hid, HistoryFailed(error)),
               !.routers = routerDb_updateStatus(@, router.id, "error"),
               !.pipes[jobId][k].pc = "done",
               !.pipes[jobId][k].success = FALSE]
  IN Emit(s1, "router_failed", jobId, [routerId |-> router.id, error |-> eventError])
  : s \in {s0}})

\* a pipeline ends verified
PipelineSucceed(s0, jobId, k, newVersion) ==
  One({
  LET router == s.tasks[jobId].routers[k]
      hid == s.pipes[jobId][k].historyId
      s1 == [s EXCEPT
               !.update_history = updateHistoryDb_update(@, hid, HistorySuccess(newVersion)),
               !.routers = routerDb_updateFirmwareInfo(@, router.id, newVersion, NULL,
                                                       "up_to_date"),
               !.pipes[jobId][k].pc = "done",
               !.pipes[jobId][k].success = TRUE]
  IN Emit(s1, "router_completed", jobId,
          [routerId |-> router.id, firmwareBefore |-> router.current_firmware,
           firmwareAfter |-> newVersion])
  : s \in {s0}})

\* the pipeline of the k-th candidate, up to its first await
\* a pipeline that does not announce the download
StartPipeline_NoDownloading(s0, jobId, k) ==
  One({
  LET task == s.tasks[jobId]
      router == task.routers[k]
      username == Or(router.username, task.globalCreds.username)
      password == Or(router.password, task.globalCreds.password)
      historyId == Len(s.update_history) + 1
      s1 == [s EXCEPT
               !.update_history = updateHistoryDb_insert(@, HistoryEntry(historyId, router)),
               !.routers = routerDb_updateStatus(@, router.id, "updating"),
               !.pipes[jobId][k] = [pc |-> "performUpdate", historyId |-> historyId,
                                    success |-> FALSE]]
      s2 == Emit(s1, "router_started", jobId,
                 [routerId |-> router.id, firmwareBefore |-> router.current_firmware])
  IN IF username = NULL \/ password = NULL
     THEN PipelineFail(s2, jobId, k, "No credentials available", "No credentials available")
     ELSE s2
  : s \in {s0}})

StartPipeline(s0, jobId, k) ==
  One({
  LET task == s.tasks[jobId]
      router == task.routers[k]
      username == Or(router.username, task.globalCreds.username)
      password == Or(router.password, task.globalCreds.password)
      historyId == Len(s.update_history) + 1
      s1 == [s EXCEPT
               !.update_history = updateHistoryDb_insert(@, HistoryEntry(historyId, router)),
               !.routers = routerDb_updateStatus(@, router.id, "updating"),
               !.pipes[jobId][k] = [pc |-> "performUpdate", historyId |-> historyId,
                                    success |-> FALSE]]
      s2 == Emit(s1, "router_started", jobId,
                 [routerId |-> router.id, firmwareBefore |-> router.current_firmware])
  IN IF username = NULL \/ password = NULL
     THEN PipelineFail(s2, jobId, k, "No credentials available", "No credentials available")
     ELSE Emit(s2, "router_progress", jobId,
               [routerId |-> router.id, status |-> "downloading"])
  : s \in {s0}})

\* the positions (1-based) of the batch that starts at index i
BatchPositions(task) ==
  (task.i + 1)..Min(task.i + task.batchSize, Len(task.routers))

RECURSIVE StartPipelines(_, _, _, _)
\* currentBatch.map(async router => ...): positions from..to, in order
StartPipelines(s0, jobId, from, to) ==
  One({
  IF from > to THEN s
  ELSE StartPipelines(StartPipeline(s, jobId, from), jobId, from + 1, to)
  : s \in {s0}})

\* a batch launched without its batch_started event
LaunchBatch_NoBatchStarted(s, jobId) ==
  LET task == s.tasks[jobId]
      last == Min(task.i + task.batchSize, Len(task.routers))
  IN [StartPipelines(s, jobId, task.i + 1, last) EXCEPT !.tasks[jobId].pc = "awaitBatch"]

\* one batch: batch_started, then every pipeline of the window is launched
LaunchBatch(s0, jobId) ==
  One({
  LET task == s.tasks[jobId]
      totalBatches == Ceil(Len(task.routers), task.batchSize)
      batchNumber == (task.i \div task.batchSize) + 1
      last == Min(task.i + task.batchSize, Len(task.routers))
      s1 == Emit(s, "batch_started", jobId,
                 [batchNumber |-> batchNumber, totalBatches |-> totalBatches,
                  total |-> last - task.i])
      s2 == StartPipelines(s1, jobId, task.i + 1, last)
  IN [s2 EXCEPT !.tasks[jobId].pc = "awaitBatch"]
  : s \in {s0}})

\* after the batch loop: final status, job_completed, clean-up
Finish(s0, jobId) ==
  One({
  LET task == s.tasks[jobId]
      finalStatus == FinalStatus(s.activeBatches, jobId)
      s1 == [s EXCEPT !.batch_jobs = batchJobDb_update(@, jobId,
                         [status |-> finalStatus, completed_at |-> NOW])]
      s2 == Emit(s1, "job_completed", jobId,
                 [message |-> "Job finished", status |-> finalStatus,
                  total |-> Len(task.routers), completed |-> task.completedCount,
                  failed |-> task.failedCount])
  IN [s2 EXCEPT !.activeBatches = [j \in DOMAIN @ \ {jobId} |-> @[j]],
                !.listeners = Cleanup(@, jobId),
                !.tasks[jobId].pc = "done"]
  : s \in {s0}})

\* the head of the loop without the abort check
LoopTop_NoAbortCheck(s, jobId) ==
  IF s.tasks[jobId].i < Len(s.tasks[jobId].routers)
  THEN LaunchBatch(s, jobId)
  ELSE Finish(s, jobId)

\* the head of the for loop with task.i set: loop test, abort check, batch
LoopTop(s0, jobId) ==
  One({
  LET task == s.tasks[jobId]
  IN IF task.i < Len(task.routers)
     THEN IF AbortRequested(s.activeBatches, jobId)
          THEN Finish(Emit(s, "job_completed", jobId,
                           [message |-> "Job aborted", status |-> "cancelled",
                            completed |-> task.completedCount,
                            failed |-> task.failedCount]),
                      jobId)
          ELSE LaunchBatch(s, jobId)
     ELSE Finish(s, jobId)
  : s \in {s0}})

\* a loop that advances by one router instead of one window
NextIteration_ByOne(s, jobId) ==
  LoopTop([s EXCEPT !.tasks[jobId].i = @ + 1], jobId)

\* i += batchSize, then the head of the loop
NextIteration(s0, jobId) ==
  One({
  LoopTop([s EXCEPT !.tasks[jobId].i = @ + s.tasks[jobId].batchSize], jobId)
  : s \in {s0}})

\* a countdown that stops one minute early
WaitLoop_StopsAtOne(s, jobId, remaining) ==
  LET task == s.tasks[jobId]
      batchNumber == (task.i \div task.batchSize) + 1
  IN IF remaining > 1 /\ ~AbortRequested(s.activeBatches, jobId)
     THEN [Emit(s, "batch_waiting", jobId,
                [waitTimeRemaining |-> remaining, batchNumber |-> batchNumber + 1,
                 totalBatches |-> Ceil(Len(task.routers), task.batchSize)])
             EXCEPT !.tasks[jobId].pc = "waiting", !.tasks[jobId].remaining = remaining]
     ELSE NextIteration(s, jobId)

\* the head of the countdown loop with `remaining` minutes left
WaitLoop(s0, jobId, remaining) ==
  One({
  LET task == s.tasks[jobId]
      batchNumber == (task.i \div task.batchSize) + 1
  IN IF remaining > 0 /\ ~AbortRequested(s.activeBatches, jobId)
     THEN [Emit(s, "batch_waiting", jobId,
                [waitTimeRemaining |-> remaining, batchNumber |-> batchNumber + 1,
                 totalBatches |-> Ceil(Len(task.routers), task.batchSize)])
             EXCEPT !.tasks[jobId].pc = "waiting", !.tasks[jobId].remaining = remaining]
     ELSE NextIteration(s, jobId)
  : s \in {s0}})

\* the count taken over every pipeline of the job instead of the batch
CountResults_AllPipelines(s, jobId, b) ==
  Cardinality({k \in DOMAIN s.pipes[jobId] :
                 s.pipes[jobId][k].pc = "done" /\ s.pipes[jobId][k].success = b})

\* a count that looks at the first pipeline of the batch only
CountResults_FirstOnly(s, jobId, b) ==
  Cardinality({k \in {s.tasks[jobId].i + 1} : s.pipes[jobId][k].success = b})

\* the number of pipelines of the current batch that returned success = b
CountResults(s, jobId, b) ==
  Cardinality({k \in BatchPositions(s.tasks[jobId]) : s.pipes[jobId][k].success = b})

\* the continuation of `await Promise.all(batchPromises)`
AfterBatch(s0, jobId) ==
  One({
  LET task == s.tasks[jobId]
      batchCompleted == CountResults(s, jobId, TRUE)
      batchFailed == CountResults(s, jobId, FALSE)
      completedCount == task.completedCount + batchCompleted
      failedCount == task.failedCount + batchFailed
      total == Len(task.routers)
      s1 == [s EXCEPT !.tasks[jobId].completedCount = completedCount,
                      !.tasks[jobId].failedCount = failedCount,
                      !.batch_jobs = batchJobDb_update(@, jobId,
                          [completed_routers |-> completedCount,
                           failed_routers |-> failedCount])]
      s2 == Emit(s1, "batch_completed", jobId,
                 [batchNumber |-> (task.i \div task.batchSize) + 1,
                  totalBatches |-> Ceil(total, task.batchSize),
                  completed |-> batchCompleted, failed |-> batchFailed])
      s3 == Emit(s2, "job_progress", jobId,
                 [total |-> total, completed |-> completedCount, failed |-> failedCount,
                  progress |-> RoundPercent(completedCount + failedCount, total)])
  IN IF task.i + task.batchSize < total /\ ~AbortRequested(s3.activeBatches, jobId)
     THEN WaitLoop(s3, jobId, task.waitTimeMinutes)
     ELSE NextIteration(s3, jobId)
  : s \in {s0}})

\* processBatchUpdate up to its first await
processBatchUpdate(s0, jobId) ==
  One({
  LET task == s.tasks[jobId]
      s1 == [s EXCEPT !.batch_jobs = batchJobDb_update(@, jobId,
                         [status |-> "running", started_at |-> NOW])]
      s2 == Emit(s1, "job_started", jobId,
                 [total |-> Len(task.routers),
                  totalBatches |-> Ceil(Len(task.routers), task.batchSize)])
  IN LoopTop(s2, jobId)
  : s \in {s0}})


(***************************************************************************)
(* Initial state: an imported and scanned inventory, no rollout yet.       *)
(***************************************************************************)
\* odd ids: own credentials and an update on offer; even ids: no own
\* credentials, last scan failed
InitialRouter(id) ==
  IF id % 2 = 1
  THEN [id |-> id, username |-> "admin", password |-> "secret",
        current_firmware |-> "v1", available_firmware |-> "v2",
        status |-> "update_available"]
  ELSE [id |-> id, username |-> NULL, password |-> NULL,
        current_firmware |-> "v1", available_firmware |-> NULL,
        status |-> "error"]

\* no verifyUpdateAfterReboot call made on its own yet
NoVerification ==
  [pc |-> "idle", expectedVersion |-> NULL, dev |-> [at |-> 0, version |-> NULL],
   result |-> [success |-> FALSE, newVersion |-> NULL, error |-> NULL, polls |-> 0]]

\* no library function called on its own yet
NoCall == [fn |-> "none", pc |-> "idle", input |-> <<>>, output |-> <<>>]

Init ==
  /\ routers = [id \in RouterIds |-> InitialRouter(id)]
  /\ update_history = <<>>
  /\ batch_jobs = <<>>
  /\ settings \in {[global_username |-> NULL, global_password |-> NULL,
                      batch_wait_minutes |-> 0],
                     [global_username |-> "root", global_password |-> "toor",
                      batch_wait_minutes |-> MaxWait]}
  /\ activeBatches = [j \in {} |-> [abort |-> FALSE]]
  /\ tasks = <<>>
  /\ pipes = <<>>
  /\ scans = <<>>
  /\ events = [j \in {CheckJobId} \cup JobIds |-> <<>>]
  /\ listeners = [j \in {} |-> {}]
  /\ globalListeners = {}
  /\ conns = [c \in 1..MaxConns |-> [state |-> "idle", scope |-> "none", jobId |-> 0]]
  /\ delivered = [c \in 1..MaxConns |-> <<>>]
  /\ verifyCall = NoVerification
  /\ libCall = NoCall
  /\ lastResponse = [op |-> "none", status |-> 0, jobId |-> 0]

(***************************************************************************)
(* Operator commands.                                                      *)
(***************************************************************************)
\* the routerIds an operator may pass: up to MaxIds ids, repeats and
\* unknown ids included; <<>> is "no routerIds"
RouterIdLists ==
  UNION {[1..n -> RouterIds \cup {MissingId}] : n \in 0..MaxIds}

\* the candidate list of a start-rollout request
Candidates(rt, routerIds, includeErrors) ==
  IF Len(routerIds) > 0
  THEN routerDb_getByIds(rt, routerIds)
  ELSE routerDb_getByStatus(rt, "update_available")
       \o (IF includeErrors
           THEN routerDb_getByStatus(rt, "error") \o routerDb_getByStatus(rt, "unreachable")
           ELSE <<>>)

\* the new job, its abort flag and its background task up to the first await
StartJob(s, jobId, cands, batchSize, globalCreds, waitTimeMinutes) ==
  LET s1 == [s EXCEPT
               !.batch_jobs = batchJobDb_insert(@,
                   [id |-> jobId, status |-> "pending", batch_size |-> batchSize,
                    total_routers |-> Len(cands)]),
               !.activeBatches = [j \in DOMAIN @ \cup {jobId} |->
                                    IF j = jobId THEN [abort |-> FALSE] ELSE @[j]],
               !.tasks = Append(@, [pc |-> "start", routers |-> cands,
                                    batchSize |-> batchSize, globalCreds |-> globalCreds,
                                    waitTimeMinutes |-> waitTimeMinutes, i |-> 0,
                                    completedCount |-> 0, failedCount |-> 0,
                                    remaining |-> 0]),
               !.pipes = Append(@, [k \in 1..Len(cands) |->
                                      [pc |-> "idle", historyId |-> 0, success |-> FALSE]])]
  IN processBatchUpdate(s1, jobId)

\* a conflict response that names no job
ConflictResponse_NoJobId(activeJob) == [op |-> "POST", status |-> 409, jobId |-> 0]

\* 409: 'A batch update is already running', with the active job's id
ConflictResponse(activeJob) == [op |-> "POST", status |-> 409, jobId |-> activeJob]

\* 400: 'No routers to update'
NoRoutersResponse == [op |-> "POST", status |-> 400, jobId |-> 0]

\* POST /api/update: start a rollout
POST(routerIds, batchSize, includeErrors, maxJobs) ==
  LET globalCreds == settingsDb_getGlobalCredentials(settings)
      waitTimeMinutes == settingsDb_getBatchWaitTime(settings)
      cands == Candidates(routers, routerIds, includeErrors)
      activeJob == batchJobDb_getActive(batch_jobs)
      jobId == Len(batch_jobs) + 1
  IN /\ IF Len(cands) = 0
        THEN /\ lastResponse' = NoRoutersResponse
             /\ SetState(Cur)
        ELSE IF activeJob # 0
        THEN /\ lastResponse' = ConflictResponse(activeJob)
             /\ SetState(Cur)
        ELSE /\ jobId <= maxJobs
             /\ lastResponse' = [op |-> "POST", status |-> 200, jobId |-> jobId]
             /\ SetState(StartJob(Cur, jobId, cands, batchSize, globalCreds,
                                  waitTimeMinutes))
     /\ UNCHANGED <<settings, conns, verifyCall, libCall>>

\* the cancel requests served so far for a job id
Cancels(ev, jobId) ==
  Cardinality({n \in DOMAIN ev[jobId] :
                 /\ ev[jobId][n].type = "job_completed"
                 /\ ev[jobId][n].data.message = "Job cancelled by user"})

\* a cancel that also drops the pipelines in flight
CancelJob_TearsDown(s, jobId) ==
  LET s1 == [s EXCEPT
               !.activeBatches = [j \in DOMAIN @ |->
                                    IF j = jobId THEN [abort |-> TRUE] ELSE @[j]],
               !.batch_jobs = batchJobDb_update(@, jobId, [status |-> "cancelled"]),
               !.pipes = [j \in DOMAIN @ |->
                            IF j = jobId
                            THEN [k \in DOMAIN @[j] |->
                                    IF @[j][k].pc \in {"performUpdate", "verify"}
                                    THEN [@[j][k] EXCEPT !.pc = "torn"]
                                    ELSE @[j][k]]
                            ELSE @[j]]]
  IN Emit(s1, "job_completed", jobId,
          [message |-> "Job cancelled by user", status |-> "cancelled"])

\* the cancel handler's writes
CancelJob(s0, jobId) ==
  One({
  LET s1 == [s EXCEPT
               !.activeBatches = [j \in DOMAIN @ |->
                                    IF j = jobId THEN [abort |-> TRUE] ELSE @[j]],
               !.batch_jobs = batchJobDb_update(@, jobId, [status |-> "cancelled"])]
  IN Emit(s1, "job_completed", jobId,
          [message |-> "Job cancelled by user", status |-> "cancelled"])
  : s \in {s0}})

\* DELETE /api/update?jobId=...: cancel a rollout
DELETE(jobId) ==
  /\ Cancels(events, jobId) < MaxCancels
  /\ SetState(CancelJob(Cur, jobId))
  /\ lastResponse' = [op |-> "DELETE", status |-> 200, jobId |-> jobId]
  /\ UNCHANGED <<settings, conns, verifyCall, libCall>>

(***************************************************************************)
(* Background steps: a remote call of a pipeline returns, a batch's        *)
(* Promise.all resolves, a minute of the pause passes.                     *)
(***************************************************************************)
\* how a device may answer performUpdate's commands
DeviceOk ==
  [fileCheck |-> "NOT_FOUND", download |-> "ok", verify |-> "ok",
   upgrade |-> "Connection closed"]

DeviceDownloadFails ==
  [fileCheck |-> "NOT_FOUND", download |-> "fail", verify |-> "ok", upgrade |-> "ok"]

DeviceBehaviours == {DeviceOk, DeviceDownloadFails}

\* how a device may answer the polls after the reboot
RebootBehaviours ==
  {[at |-> a, version |-> v] : a \in {1, MAX_RETRIES}, v \in Versions}
    \cup {[at |-> MAX_RETRIES + 1, version |-> "v2"]}

\* the continuation of `await performUpdate(...)`
AfterPerformUpdate(s0, jobId, k, result) ==
  One({
  IF ~result.success
  THEN PipelineFail(s, jobId, k, Or(result.error, "Update failed"), result.error)
  ELSE [Emit(s, "router_progress", jobId,
             [routerId |-> s.tasks[jobId].routers[k].id, status |-> "rebooting"])
          EXCEPT !.pipes[jobId][k].pc = "verify"]
  : s \in {s0}})

\* the continuation of `await verifyUpdateAfterReboot(...)`
AfterVerify(s0, jobId, k, verification) ==
  One({
  IF verification.success
  THEN PipelineSucceed(s, jobId, k, verification.newVersion)
  ELSE PipelineFail(s, jobId, k, Or(verification.error, "Verification failed"),
                    verification.error)
  : s \in {s0}})

PerformUpdateReturns(jobId, k, dev) ==
  /\ jobId \in DOMAIN pipes
  /\ k \in DOMAIN pipes[jobId]
  /\ pipes[jobId][k].pc = "performUpdate"
  /\ SetState(AfterPerformUpdate(Cur, jobId, k, performUpdate(dev)))
  /\ UNCHANGED <<settings, conns, verifyCall, libCall, lastResponse>>

VerifyReturns(jobId, k, dev) ==
  /\ jobId \in DOMAIN pipes
  /\ k \in DOMAIN pipes[jobId]
  /\ pipes[jobId][k].pc = "verify"
  /\ SetState(AfterVerify(Cur, jobId, k,
                verifyUpdateAfterReboot(tasks[jobId].routers[k].available_firmware,
                                        MAX_RETRIES, dev)))
  /\ UNCHANGED <<settings, conns, verifyCall, libCall, lastResponse>>

\* an error thrown inside the pipeline's try block lands in its catch
PipelineThrows(jobId, k) ==
  /\ jobId \in DOMAIN pipes
  /\ k \in DOMAIN pipes[jobId]
  /\ pipes[jobId][k].pc \in {"performUpdate", "verify"}
  /\ SetState(PipelineFail(Cur, jobId, k, "Unknown error", "Unknown error"))
  /\ UNCHANGED <<settings, conns, verifyCall, libCall, lastResponse>>

\* an await of the batch that resumes as soon as the pipelines are launched
BatchSettled_Launched(s, jobId) ==
  \A k \in BatchPositions(s.tasks[jobId]) : s.pipes[jobId][k].pc # "idle"

\* an await of the batch that resumes when the first pipeline has returned
BatchSettled_AnyDone(s, jobId) ==
  \E k \in BatchPositions(s.tasks[jobId]) : s.pipes[jobId][k].pc = "done"

\* every pipeline of the current batch has returned
BatchSettled(s, jobId) ==
  \A k \in BatchPositions(s.tasks[jobId]) : s.pipes[jobId][k].pc = "done"

BatchResolves(jobId) ==
  /\ jobId \in DOMAIN tasks
  /\ tasks[jobId].pc = "awaitBatch"
  /\ BatchSettled(Cur, jobId)
  /\ SetState(AfterBatch(Cur, jobId))
  /\ UNCHANGED <<settings, conns, verifyCall, libCall, lastResponse>>

\* the one-minute sleep of the countdown loop ends
MinuteElapses(jobId) ==
  /\ jobId \in DOMAIN tasks
  /\ tasks[jobId].pc = "waiting"
  /\ SetState(WaitLoop(Cur, jobId, tasks[jobId].remaining - 1))
  /\ UNCHANGED <<settings, conns, verifyCall, libCall, lastResponse>>

(***************************************************************************)
(* Scan engine (routers/check/route.ts): one request checks its routers in *)
(* chunks of CONCURRENT_CHECKS, each router in a check of its own.         *)
(***************************************************************************)
CONCURRENT_CHECKS == 10

\* getFirmwareInfo: dev says what the device answers
\*   version: the text of /etc/version, NULL when the command fails
\*   fota:    the fw field of rut_fota get_info: a version, "Fw_newest",
\*            or "error" when the call or its parse fails
getFirmwareInfo(dev) ==
  LET current == dev.version
      available == IF dev.fota \notin {"error", "Fw_newest"} THEN dev.fota ELSE NULL
  IN [current |-> current, available |-> available,
      updateAvailable |-> (available # NULL /\ available # current)]

\* how a device may answer getFirmwareInfo's commands
FirmwareBehaviours ==
  {[version |-> v, fota |-> f] :
     v \in Versions \cup {NULL}, f \in Versions \cup {"error", "Fw_newest"}}

\* the positions (1-based) of the chunk that starts at index i
ScanPositions(scan) ==
  (scan.i + 1)..Min(scan.i + CONCURRENT_CHECKS, Len(scan.routers))

\* one check ends: its result status is kept for the final counts
CheckDone(s, sid, k, status) ==
  [s EXCEPT !.scans[sid].checks[k] = [pc |-> "done", status |-> status]]

\* the check of the k-th router, up to its first await
StartCheck(s0, sid, k) ==
  One({
  LET scan == s.scans[sid]
      router == scan.routers[k]
      username == Or(router.username, scan.globalCreds.username)
      password == Or(router.password, scan.globalCreds.password)
  IN IF username = NULL \/ password = NULL
     THEN CheckDone([s EXCEPT !.routers =
                       routerDb_updateFirmwareInfo(@, router.id, NULL, NULL, "error")],
                    sid, k, "error")
     ELSE [s EXCEPT !.scans[sid].checks[k].pc = "connectivity"]
  : s \in {s0}})

RECURSIVE StartChecks(_, _, _, _)
\* batch.map(async router => ...): positions from..to, in order
StartChecks(s0, sid, from, to) ==
  One({
  IF from > to THEN s
  ELSE StartChecks(StartCheck(s, sid, from), sid, from + 1, to)
  : s \in {s0}})

\* the number of checks of the scan that ended with one of the statuses
CountStatus(scan, statuses) ==
  Cardinality({k \in DOMAIN scan.checks :
                 scan.checks[k].pc = "done" /\ scan.checks[k].status \in statuses})

\* after the chunk loop: job_completed with the counts
ScanFinish(s0, sid) ==
  One({
  LET scan == s.scans[sid]
      s1 == Emit(s, "job_completed", CheckJobId,
                 [total |-> Len(scan.routers),
                  completed |-> CountStatus(scan, {"up_to_date"}),
                  failed |-> CountStatus(scan, {"error", "unreachable"})])
  IN [s1 EXCEPT !.scans[sid].pc = "done"]
  : s \in {s0}})

\* the head of the chunk loop: loop test, batch_started, the chunk's checks
ScanLoopTop(s0, sid) ==
  One({
  LET scan == s.scans[sid]
      last == Min(scan.i + CONCURRENT_CHECKS, Len(scan.routers))
      s1 == Emit(s, "batch_started", CheckJobId,
                 [batchNumber |-> (scan.i \div CONCURRENT_CHECKS) + 1,
                  totalBatches |-> Ceil(Len(scan.routers), CONCURRENT_CHECKS)])
  IN IF scan.i < Len(scan.routers)
     THEN [StartChecks(s1, sid, scan.i + 1, last) EXCEPT !.scans[sid].pc = "awaitBatch"]
     ELSE ScanFinish(s, sid)
  : s \in {s0}})

\* a continuation that reports the size of the chunk instead of the running
\* total
AfterScanBatch_ChunkOnly(s, sid) ==
  LET scan == s.scans[sid]
      checkedCount == Cardinality(ScanPositions(scan))
      s1 == Emit(s, "job_progress", CheckJobId,
                 [completed |-> checkedCount, total |-> Len(scan.routers),
                  progress |-> RoundPercent(checkedCount, Len(scan.routers))])
  IN ScanLoopTop([s1 EXCEPT !.scans[sid].checkedCount = checkedCount,
                            !.scans[sid].i = @ + CONCURRENT_CHECKS],
                 sid)

\* the continuation of `await Promise.all(batch.map(...))`
AfterScanBatch(s0, sid) ==
  One({
  LET scan == s.scans[sid]
      checkedCount == scan.checkedCount + Cardinality(ScanPositions(scan))
      s1 == Emit(s, "job_progress", CheckJobId,
                 [completed |-> checkedCount, total |-> Len(scan.routers),
                  progress |-> RoundPercent(checkedCount, Len(scan.routers))])
  IN ScanLoopTop([s1 EXCEPT !.scans[sid].checkedCount = checkedCount,
                            !.scans[sid].i = @ + CONCURRENT_CHECKS],
                 sid)
  : s \in {s0}})

\* a continuation that asks for the firmware whatever the ping said
AfterConnectivity_IgnoresPing(s, sid, k, isConnected) ==
  [s EXCEPT !.scans[sid].checks[k].pc = "getFirmwareInfo"]

\* the continuation of `await checkRouterConnectivity(...)`
AfterConnectivity(s0, sid, k, isConnected) ==
  One({
  LET router == s.scans[sid].routers[k]
      s1 == [s EXCEPT !.routers =
               routerDb_updateFirmwareInfo(@, router.id, NULL, NULL, "unreachable")]
  IN IF ~isConnected
     THEN CheckDone(Emit(s1, "router_failed", CheckJobId,
                         [routerId |-> router.id,
                          error |-> "Router not reachable via SSH"]),
                    sid, k, "unreachable")
     ELSE [s EXCEPT !.scans[sid].checks[k].pc = "getFirmwareInfo"]
  : s \in {s0}})

\* the continuation of `await getFirmwareInfo(...)`
AfterGetFirmwareInfo(s0, sid, k, firmwareInfo) ==
  One({
  LET router == s.scans[sid].routers[k]
      status == IF firmwareInfo.updateAvailable THEN "update_available" ELSE "up_to_date"
      s1 == [s EXCEPT !.routers =
               routerDb_updateFirmwareInfo(@, router.id, firmwareInfo.current,
                                           firmwareInfo.available, status)]
  IN CheckDone(Emit(s1, IF status = "update_available" THEN "router_progress"
                        ELSE "router_completed",
                    CheckJobId, [routerId |-> router.id, status |-> status]),
               sid, k, status)
  : s \in {s0}})

\* the catch block of a check
CheckFailed(s0, sid, k) ==
  One({
  LET router == s.scans[sid].routers[k]
      s1 == [s EXCEPT !.routers =
               routerDb_updateFirmwareInfo(@, router.id, NULL, NULL, "error")]
  IN CheckDone(Emit(s1, "router_failed", CheckJobId,
                    [routerId |-> router.id, error |-> "Unknown error"]),
               sid, k, "error")
  : s \in {s0}})

\* the scan request up to its first await
StartScan(s0, sid, rows, globalCreds) ==
  One({
  LET s1 == [s EXCEPT !.scans = Append(@,
               [pc |-> "start", routers |-> rows, globalCreds |-> globalCreds, i |-> 0,
                checkedCount |-> 0,
                checks |-> [k \in 1..Len(rows) |-> [pc |-> "idle", status |-> "none"]]])]
  IN ScanLoopTop(Emit(s1, "job_started", CheckJobId,
                      [total |-> Len(rows),
                       totalBatches |-> Ceil(Len(rows), CONCURRENT_CHECKS)]),
                 sid)
  : s \in {s0}})

\* POST /api/routers/check: scan the listed routers, or all of them
POST_check(routerIds) ==
  LET globalCreds == settingsDb_getGlobalCredentials(settings)
      rows == IF Len(routerIds) > 0 THEN routerDb_getByIds(routers, routerIds)
              ELSE routerDb_getAll(routers)
  IN /\ Len(scans) < MaxScans
     /\ SetState(StartScan(Cur, Len(scans) + 1, rows, globalCreds))
     /\ UNCHANGED <<settings, conns, verifyCall, libCall, lastResponse>>

ConnectivityReturns(sid, k, isConnected) ==
  /\ sid \in DOMAIN scans
  /\ k \in DOMAIN scans[sid].checks
  /\ scans[sid].checks[k].pc = "connectivity"
  /\ SetState(AfterConnectivity(Cur, sid, k, isConnected))
  /\ UNCHANGED <<settings, conns, verifyCall, libCall, lastResponse>>

FirmwareInfoReturns(sid, k, dev) ==
  /\ sid \in DOMAIN scans
  /\ k \in DOMAIN scans[sid].checks
  /\ scans[sid].checks[k].pc = "getFirmwareInfo"
  /\ SetState(AfterGetFirmwareInfo(Cur, sid, k, getFirmwareInfo(dev)))
  /\ UNCHANGED <<settings, conns, verifyCall, libCall, lastResponse>>

\* an error thrown inside the check's try block lands in its catch
CheckThrows(sid, k) ==
  /\ sid \in DOMAIN scans
  /\ k \in DOMAIN scans[sid].checks
  /\ scans[sid].checks[k].pc \in {"connectivity", "getFirmwareInfo"}
  /\ SetState(CheckFailed(Cur, sid, k))
  /\ UNCHANGED <<settings, conns, verifyCall, libCall, lastResponse>>

ScanBatchResolves(sid) ==
  /\ sid \in DOMAIN scans
  /\ scans[sid].pc = "awaitBatch"
  /\ \A k \in ScanPositions(scans[sid]) : scans[sid].checks[k].pc = "done"
  /\ SetState(AfterScanBatch(Cur, sid))
  /\ UNCHANGED <<settings, conns, verifyCall, libCall, lastResponse>>

\* a scan request longer than one chunk: a full chunk of the first router's
\* id, then the second router's id
ChunkList ==
  [k \in 1..(CONCURRENT_CHECKS + ChunkOverflow) |->
     IF k <= CONCURRENT_CHECKS THEN 1 ELSE 2]

\* one scan of more than CONCURRENT_CHECKS routers: every probe may find its
\* router unreachable, the first may throw and the last may be answered
NextChunks ==
  \/ POST_check(ChunkList)
  \/ \E k \in DOMAIN ChunkList : ConnectivityReturns(1, k, FALSE)
  \/ ConnectivityReturns(1, Len(ChunkList), TRUE)
  \/ FirmwareInfoReturns(1, Len(ChunkList), [version |-> "v1", fota |-> "v2"])
  \/ CheckThrows(1, 1)
  \/ ScanBatchResolves(1)

SpecChunks == Init /\ [][NextChunks]_vars

(***************************************************************************)
(* Event stream gateway: a connection subscribes, later disconnects.       *)
(***************************************************************************)
subscribe(ls, jobId, c) ==
  [j \in DOMAIN ls \cup {jobId} |->
     IF j = jobId THEN (IF j \in DOMAIN ls THEN ls[j] ELSE {}) \cup {c} ELSE ls[j]]

\* an unsubscribe that leaves the callback on the bus
unsubscribe_KeepsCallback(ls, jobId, c) == ls

unsubscribe(ls, jobId, c) ==
  [j \in DOMAIN ls |-> IF j = jobId THEN ls[j] \ {c} ELSE ls[j]]

\* the 'Connected to event stream' event a new connection is sent first
Greeting(jobId) == Event("job_started", jobId, [message |-> "Connected to event stream"])

\* GET /api/events?jobId=...
Connect(c, jobId) ==
  /\ conns[c].state = "idle"
  /\ conns' = [conns EXCEPT ![c] = [state |-> "open", scope |-> "job", jobId |-> jobId]]
  /\ delivered' = [delivered EXCEPT ![c] = Append(@, Greeting(jobId))]
  /\ listeners' = subscribe(listeners, jobId, c)
  /\ UNCHANGED <<verifyCall, libCall, routers, update_history, batch_jobs, settings, activeBatches, tasks,
                 pipes, scans, events, globalListeners, lastResponse>>

\* GET /api/events
ConnectAll(c) ==
  /\ conns[c].state = "idle"
  /\ conns' = [conns EXCEPT ![c] = [state |-> "open", scope |-> "all", jobId |-> 0]]
  /\ delivered' = [delivered EXCEPT ![c] = Append(@, Greeting(AllJobsId))]
  /\ globalListeners' = globalListeners \cup {c}
  /\ UNCHANGED <<verifyCall, libCall, routers, update_history, batch_jobs, settings, activeBatches, tasks,
                 pipes, scans, events, listeners, lastResponse>>

\* the client goes away: unsubscribe and close
Disconnect(c) ==
  /\ conns[c].state = "open"
  /\ conns' = [conns EXCEPT ![c].state = "closed"]
  /\ IF conns[c].scope = "all"
     THEN /\ globalListeners' = globalListeners \ {c}
          /\ UNCHANGED listeners
     ELSE /\ listeners' = unsubscribe(listeners, conns[c].jobId, c)
          /\ UNCHANGED globalListeners
  /\ UNCHANGED <<verifyCall, libCall, routers, update_history, batch_jobs, settings, activeBatches, tasks,
                 pipes, scans, events, delivered, lastResponse>>

\* the routerIds lists of Spec: none, an unknown id, one router
StartLists == {<<>>, <<MissingId>>, <<1>>}

\* the steps every specification shares: the background task and the cancel
\* command
Background(devices, reboots) ==
  \/ \E j \in JobIds, k \in 1..MaxIds, dev \in devices : PerformUpdateReturns(j, k, dev)
  \/ \E j \in JobIds, k \in 1..MaxIds, dev \in reboots : VerifyReturns(j, k, dev)
  \/ \E j \in JobIds : BatchResolves(j)
  \/ \E j \in JobIds : MinuteElapses(j)

\* several rollouts, started and cancelled in any order; a device either
\* takes the update and reports the new version, or fails
Next ==
  \/ \E ids \in StartLists, e \in BOOLEAN : POST(ids, 1, e, MaxJobs)
  \/ \E j \in JobIds : DELETE(j)
  \/ Background({DeviceOk, DeviceDownloadFails}, {[at |-> 1, version |-> "v2"]})

Spec == Init /\ [][Next]_vars

\* one rollout in full: every routerIds list, batch size and device answer,
\* and errors thrown inside a pipeline
NextRollout ==
  \/ \E ids \in RouterIdLists, b \in 1..MaxBatchSize, e \in BOOLEAN : POST(ids, b, e, 1)
  \/ DELETE(1)
  \/ Background(DeviceBehaviours, RebootBehaviours)
  \/ \E k \in 1..MaxIds : PipelineThrows(1, k)

SpecRollout == Init /\ [][NextRollout]_vars

\* one rollout watched by event-stream connections
NextStream ==
  \/ \E ids \in {<<1>>, <<1, 2>>}, b \in 1..MaxBatchSize : POST(ids, b, FALSE, 1)
  \/ DELETE(1)
  \/ Background({DeviceOk, DeviceDownloadFails}, {[at |-> 1, version |-> "v2"]})
  \/ \E c \in 1..MaxConns, j \in JobIds : Connect(c, j)
  \/ \E c \in 1..MaxConns : ConnectAll(c)
  \/ \E c \in 1..MaxConns : Disconnect(c)

SpecStream == Init /\ [][NextStream]_vars

\* Scheduling: every remote call of a pipeline returns (each command has a
\* timeout, the reboot polls are bounded), the continuation of a settled
\* Promise.all runs, and the one-minute timer fires.
Fairness ==
  /\ \A j \in JobIds, k \in 1..MaxIds :
       /\ WF_vars(\E dev \in {DeviceOk, DeviceDownloadFails} : PerformUpdateReturns(j, k, dev))
       /\ WF_vars(VerifyReturns(j, k, [at |-> 1, version |-> "v2"]))
  /\ \A j \in JobIds : WF_vars(BatchResolves(j)) /\ WF_vars(MinuteElapses(j))

\* one scan next to one rollout of the first router
NextScan ==
  \/ \E ids \in RouterIdLists : POST_check(ids)
  \/ \E k \in 1..NumRouters, isConnected \in BOOLEAN : ConnectivityReturns(1, k, isConnected)
  \/ \E k \in 1..NumRouters, dev \in FirmwareBehaviours : FirmwareInfoReturns(1, k, dev)
  \/ \E k \in 1..NumRouters : CheckThrows(1, k)
  \/ ScanBatchResolves(1)
  \/ POST(<<1>>, 1, FALSE, 1)
  \/ \E dev \in {DeviceOk, DeviceDownloadFails} : PerformUpdateReturns(1, 1, dev)
  \/ VerifyReturns(1, 1, [at |-> 1, version |-> "v2"])
  \/ BatchResolves(1)

SpecScan == Init /\ [][NextScan]_vars

(***************************************************************************)
(* verifyUpdateAfterReboot on its own, with the arguments of its call in   *)
(* processBatchUpdate: any expected version, any poll at which the device  *)
(* first answers (MAX_RETRIES + 1: not within the polls made).             *)
(***************************************************************************)
PollAnswers ==
  {[at |-> a, version |-> v] : a \in 1..(MAX_RETRIES + 1), v \in Versions}

\* verifyUpdateAfterReboot(credentials, router.available_firmware, 20, 30000)
CallVerify(expectedVersion, dev) ==
  /\ verifyCall.pc = "idle"
  /\ verifyCall' = [verifyCall EXCEPT !.pc = "called",
                                      !.expectedVersion = expectedVersion,
                                      !.dev = dev]
  /\ UNCHANGED <<routers, update_history, batch_jobs, settings, activeBatches, tasks,
                 pipes, scans, events, listeners, globalListeners, conns, delivered,
                 libCall, lastResponse>>

\* the call returns
VerifyCompletes ==
  /\ verifyCall.pc = "called"
  /\ verifyCall' = [verifyCall EXCEPT
                      !.pc = "returned",
                      !.result = verifyUpdateAfterReboot(verifyCall.expectedVersion,
                                                         MAX_RETRIES, verifyCall.dev)]
  /\ UNCHANGED <<routers, update_history, batch_jobs, settings, activeBatches, tasks,
                 pipes, scans, events, listeners, globalListeners, conns, delivered,
                 libCall, lastResponse>>

NextVerify ==
  \/ \E expectedVersion \in Versions \cup {NULL}, dev \in PollAnswers :
       CallVerify(expectedVersion, dev)
  \/ VerifyCompletes

SpecVerify == Init /\ [][NextVerify]_vars

(***************************************************************************)
(* Process restart: the in-memory state is lost, the modules are loaded    *)
(* again, the database file stays.                                         *)
(***************************************************************************)
\* db.exec of the schema: CREATE TABLE / INDEX IF NOT EXISTS only, no UPDATE;
\* the rows of an existing table are left as they are
InitializeSchema(table) == table

\* the process ends: every running processBatchUpdate, pipeline and scan is
\* gone with it
KillProcess(s0) ==
  One({
  [s EXCEPT
     !.tasks = [j \in DOMAIN s.tasks |->
                  IF s.tasks[j].pc = "done" THEN s.tasks[j]
                  ELSE [s.tasks[j] EXCEPT !.pc = "killed"]],
     !.pipes = [j \in DOMAIN s.pipes |->
                  [k \in DOMAIN s.pipes[j] |->
                     IF s.pipes[j][k].pc \in {"idle", "done"} THEN s.pipes[j][k]
                     ELSE [s.pipes[j][k] EXCEPT !.pc = "killed"]]],
     !.scans = [sid \in DOMAIN s.scans |->
                  IF s.scans[sid].pc = "done" THEN s.scans[sid]
                  ELSE [s.scans[sid] EXCEPT
                          !.pc = "killed",
                          !.checks = [k \in DOMAIN s.scans[sid].checks |->
                                        IF s.scans[sid].checks[k].pc \in {"idle", "done"}
                                        THEN s.scans[sid].checks[k]
                                        ELSE [s.scans[sid].checks[k] EXCEPT !.pc = "killed"]]]]]
  : s \in {s0}})

\* the process starts again: db.ts opens the database and runs the schema
\* script, the update route creates an empty activeBatches map and the event
\* bus an emitter without listeners
LoadModules(s0) ==
  One({
  [s EXCEPT !.routers = InitializeSchema(s.routers),
            !.update_history = InitializeSchema(s.update_history),
            !.batch_jobs = InitializeSchema(s.batch_jobs),
            !.activeBatches = [j \in {} |-> [abort |-> FALSE]],
            !.listeners = [j \in {} |-> {}],
            !.globalListeners = {}]
  : s \in {s0}})

Restart ==
  /\ SetState(LoadModules(KillProcess(Cur)))
  /\ conns' = [c \in DOMAIN conns |->
                 IF conns[c].state = "open" THEN [conns[c] EXCEPT !.state = "closed"]
                 ELSE conns[c]]
  /\ verifyCall' = NoVerification
  /\ UNCHANGED <<settings, libCall, lastResponse>>

\* rollouts started and cancelled in any order, with restarts of the process
NextRestart ==
  \/ \E ids \in StartLists, e \in BOOLEAN : POST(ids, 1, e, MaxJobs)
  \/ \E j \in JobIds : DELETE(j)
  \/ Background({DeviceOk, DeviceDownloadFails}, {[at |-> 1, version |-> "v2"]})
  \/ Restart

SpecRestart == Init /\ [][NextRestart]_vars

(***************************************************************************)
(* Firmware version table: firmwareVersionDb.                              *)
(*                                                                         *)
(* A firmware string such as "RUT9_R_00.07.06.11" is kept as its device    *)
(* prefix (the text the pattern /^([A-Z0-9]+)_/ captures, "" when it does  *)
(* not match) and the dot-separated digit groups it ends with, each a      *)
(* sequence of decimal digits.                                             *)
(***************************************************************************)
Fw(prefix, parts) == [null |-> FALSE, prefix |-> prefix, parts |-> parts]

\* the null of `string | null`
NullFirmware == [null |-> TRUE, prefix |-> "", parts |-> <<>>]

\* a digit group as the device prints it: one digit, or zero-padded to two
PartTexts == {<<d>> : d \in 0..MaxDigit} \cup {<<0, d>> : d \in 0..MaxDigit}

RECURSIVE parseInt(_)
\* parseInt(text, 10) of a sequence of decimal digits
parseInt(text) ==
  IF text = <<>> THEN 0
  ELSE 10 * parseInt(SubSeq(text, 1, Len(text) - 1)) + text[Len(text)]

\* firmware.match(/(\d+)\.(\d+)\.(\d+)\.(\d+)$/): the last four digit groups,
\* <<>> when the string does not end with four of them
MatchVersion(fw) ==
  IF Len(fw.parts) >= 4
  THEN [i \in 1..4 |-> fw.parts[Len(fw.parts) - 4 + i]]
  ELSE <<>>

\* SELECT * FROM firmware_versions WHERE device_prefix = ?
firmwareVersionDb_getByPrefix(table, prefix) ==
  IF prefix \in DOMAIN table THEN table[prefix] ELSE NullFirmware

\* version?.latest_version ?? null, null when the prefix pattern does not match
firmwareVersionDb_getLatestForFirmware(table, currentFirmware) ==
  IF currentFirmware.prefix = "" THEN NullFirmware
  ELSE firmwareVersionDb_getByPrefix(table, currentFirmware.prefix)

\* !s on a `string | null`: null or the empty string
Falsy(fw) == fw.null \/ (fw.prefix = "" /\ fw.parts = <<>>)

RECURSIVE CompareFrom_NoLess(_, _, _)
\* a loop that goes on to the next digit group when the current one is greater
CompareFrom_NoLess(currentMatch, latestMatch, i) ==
  IF i > 4 THEN FALSE
  ELSE IF parseInt(latestMatch[i]) > parseInt(currentMatch[i]) THEN TRUE
  ELSE CompareFrom_NoLess(currentMatch, latestMatch, i + 1)

RECURSIVE CompareFrom(_, _, _)
\* the loop for (i = 1; i <= 4; i++) from index i on
CompareFrom(currentMatch, latestMatch, i) ==
  IF i > 4 THEN FALSE
  ELSE LET curr == parseInt(currentMatch[i])
           latest == parseInt(latestMatch[i])
       IN IF latest > curr THEN TRUE
          ELSE IF curr > latest THEN FALSE
          ELSE CompareFrom(currentMatch, latestMatch, i + 1)

firmwareVersionDb_isUpdateAvailable(table, currentFirmware) ==
  IF Falsy(currentFirmware)
  THEN [available |-> FALSE, latestVersion |-> NullFirmware]
  ELSE LET latestVersion == firmwareVersionDb_getLatestForFirmware(table, currentFirmware)
           currentMatch == MatchVersion(currentFirmware)
           latestMatch == MatchVersion(latestVersion)
       IN IF Falsy(latestVersion)
          THEN [available |-> FALSE, latestVersion |-> NullFirmware]
          ELSE IF currentMatch = <<>> \/ latestMatch = <<>>
          THEN [available |-> currentFirmware # latestVersion,
                latestVersion |-> latestVersion]
          ELSE [available |-> CompareFrom(currentMatch, latestMatch, 1),
                latestVersion |-> latestVersion]

\* firmware strings of one device family that end in a four-part version
FourPartFirmwares == {Fw("RUT9", parts) : parts \in [1..4 -> PartTexts]}

\* other strings: three digit groups, another family, no prefix, null
OtherFirmwares ==
  {Fw("RUT9", <<<<0>>, <<1>>, <<1>>>>), Fw("RUTX", <<<<0>>, <<0>>, <<0>>, <<1>>>>),
   Fw("", <<<<0>>, <<0>>, <<0>>, <<1>>>>), NullFirmware}

\* firmware_versions tables: empty, or the latest version of one family
VersionTables ==
  {[p \in {} |-> NullFirmware]}
    \cup {[p \in {"RUT9"} |-> latest] :
            latest \in FourPartFirmwares \cup {Fw("RUT9", <<<<0>>, <<1>>, <<1>>>>)}}

\* firmwareVersionDb.isUpdateAvailable(currentFirmware) on a given table
Call_isUpdateAvailable(table, currentFirmware) ==
  /\ libCall.pc = "idle"
  /\ libCall' = [fn |-> "isUpdateAvailable", pc |-> "returned",
                 input |-> [table |-> table, currentFirmware |-> currentFirmware],
                 output |-> firmwareVersionDb_isUpdateAvailable(table, currentFirmware)]
  /\ UNCHANGED <<routers, update_history, batch_jobs, settings, activeBatches, tasks,
                 pipes, scans, events, listeners, globalListeners, conns, delivered,
                 verifyCall, lastResponse>>

NextVersions ==
  /\ libCall.pc = "idle"
  /\ \E table \in VersionTables, currentFirmware \in FourPartFirmwares \cup OtherFirmwares :
       Call_isUpdateAvailable(table, currentFirmware)

SpecVersions == Init /\ [][NextVersions]_vars

(***************************************************************************)
(* routerDb.insertMany on a routers table with all its columns.  A table   *)
(* is a function from the ids it holds to rows; timestamps are seconds,    *)
(* NoTime is the NULL of a timestamp column.                               *)
(***************************************************************************)
NoTime == 0

\* INSERT OR REPLACE INTO routers (id, device_name, ip_address, username,
\* password, status): the rows that hold the new id or the new ip_address
\* (PRIMARY KEY, UNIQUE) are deleted, then the row is inserted; the columns
\* not listed take their defaults
InsertOrReplace(table, router, now) ==
  LET kept == {id \in DOMAIN table :
                 id # router.id /\ table[id].ip_address # router.ip_address}
      row == [id |-> router.id, device_name |-> router.device_name,
              ip_address |-> router.ip_address, username |-> router.username,
              password |-> router.password, current_firmware |-> NULL,
              available_firmware |-> NULL, last_check |-> NoTime,
              status |-> router.status, created_at |-> now, updated_at |-> now]
  IN [id \in kept \cup {router.id} |-> IF id = router.id THEN row ELSE table[id]]

RECURSIVE routerDb_insertMany(_, _, _)
\* one transaction that runs the statement for every record of the list
routerDb_insertMany(table, list, now) ==
  IF list = <<>> THEN table
  ELSE routerDb_insertMany(InsertOrReplace(table, Head(list), now), Tail(list), now)

\* the records an import passes
ImportRecords ==
  {[id |-> id, device_name |-> name, ip_address |-> ip, username |-> NULL,
    password |-> NULL, status |-> "unknown"] :
     id \in 1..2, name \in {"gw-a", "gw-b"}, ip \in {"10.0.0.1", "10.0.0.2"}}

ImportLists == UNION {[1..n -> ImportRecords] : n \in 0..MaxImport}

\* a row that was imported at second 1 and scanned since
ScannedRow(id, ip) ==
  [id |-> id, device_name |-> "gw-a", ip_address |-> ip, username |-> NULL,
   password |-> NULL, current_firmware |-> "v1", available_firmware |-> "v2",
   last_check |-> 1, status |-> "update_available", created_at |-> 1, updated_at |-> 1]

\* routers tables: any set of ids, ip_address unique
RouterTables ==
  {[id \in ids |-> ScannedRow(id, ipOf[id])] :
     ids \in SUBSET (1..2),
     ipOf \in {f \in [1..2 -> {"10.0.0.1", "10.0.0.2"}] : f[1] # f[2]}}

\* insertMany(list) at second now1, and insertMany(list) again at second now2
Call_insertMany(table, list, now1, now2) ==
  /\ libCall.pc = "idle"
  /\ now1 <= now2
  /\ libCall' = [fn |-> "insertMany", pc |-> "returned",
                 input |-> [table |-> table, list |-> list, now1 |-> now1, now2 |-> now2],
                 output |-> [once |-> routerDb_insertMany(table, list, now1),
                             twice |-> routerDb_insertMany(
                                         routerDb_insertMany(table, list, now1),
                                         list, now2)]]
  /\ UNCHANGED <<routers, update_history, batch_jobs, settings, activeBatches, tasks,
                 pipes, scans, events, listeners, globalListeners, conns, delivered,
                 verifyCall, lastResponse>>

NextImport ==
  /\ libCall.pc = "idle"
  /\ \E table \in RouterTables, list \in ImportLists, now2 \in {2, 3} :
       Call_insertMany(table, list, 2, now2)

SpecImport == Init /\ [][NextImport]_vars

(***************************************************************************)
(* UpdateEventEmitter.emit on its own, with callbacks that may throw.  A   *)
(* Set of callbacks is the sequence of its members in insertion order,     *)
(* which is the order forEach visits them in.                              *)
(***************************************************************************)
RECURSIVE forEachCallback_NoCatch(_, _)
\* a loop without try/catch: the first callback that throws ends it
forEachCallback_NoCatch(callbacks, throwing) ==
  IF callbacks = <<>> THEN [calls |-> <<>>, threw |-> FALSE]
  ELSE IF Head(callbacks) \in throwing THEN [calls |-> <<Head(callbacks)>>, threw |-> TRUE]
  ELSE LET rest == forEachCallback_NoCatch(Tail(callbacks), throwing)
       IN [calls |-> <<Head(callbacks)>> \o rest.calls, threw |-> rest.threw]

RECURSIVE forEachCallback(_, _)
\* forEach(callback => { try { callback(event) } catch (e) { console.error } }):
\* the callbacks called, in order, and whether an error left the loop
forEachCallback(callbacks, throwing) ==
  IF callbacks = <<>> THEN [calls |-> <<>>, threw |-> FALSE]
  ELSE LET rest == forEachCallback(Tail(callbacks), throwing)
       IN [calls |-> <<Head(callbacks)>> \o rest.calls, threw |-> rest.threw]

\* emit(event): the job's listeners, then the global listeners; an error that
\* leaves the first loop skips the second
UpdateEventEmitter_emit(jobListeners, allListeners, jobId, throwing) ==
  LET first == forEachCallback(IF jobId \in DOMAIN jobListeners
                               THEN jobListeners[jobId] ELSE <<>>, throwing)
      second == forEachCallback(allListeners, throwing)
  IN IF first.threw THEN first
     ELSE [calls |-> first.calls \o second.calls, threw |-> second.threw]

Callbacks == 1..MaxCallbacks

\* the Sets of callbacks: sequences without repetition
CallbackSets ==
  UNION {{q \in [1..n -> Callbacks] : \A i, k \in 1..n : i # k => q[i] # q[k]} :
           n \in 0..MaxCallbacks}

Call_emit(jobListeners, allListeners, jobId, throwing) ==
  /\ libCall.pc = "idle"
  /\ libCall' = [fn |-> "emit", pc |-> "returned",
                 input |-> [listeners |-> jobListeners, globalListeners |-> allListeners,
                            jobId |-> jobId, throwing |-> throwing],
                 output |-> UpdateEventEmitter_emit(jobListeners, allListeners, jobId,
                                                    throwing)]
  /\ UNCHANGED <<routers, update_history, batch_jobs, settings, activeBatches, tasks,
                 pipes, scans, events, listeners, globalListeners, conns, delivered,
                 verifyCall, lastResponse>>

NextBus ==
  /\ libCall.pc = "idle"
  /\ \E jobListeners \in [JobIds -> CallbackSets], allListeners \in CallbackSets,
        jobId \in JobIds, throwing \in SUBSET Callbacks :
       Call_emit(jobListeners, allListeners, jobId, throwing)

SpecBus == Init /\ [][NextBus]_vars

(***************************************************************************)
(* The shell service command by command.  A session is what happens to one *)
(* executeSSHCommand call: the stream closes with an exit code, stdout and *)
(* stderr; the command timer fires; or the connection (or exec) reports an *)
(* error, of which kind says what went wrong and message is its text.      *)
(***************************************************************************)
Closed(code, output, stderr) ==
  [event |-> "close", code |-> code, output |-> output, stderr |-> stderr,
   kind |-> "none", message |-> ""]

TimedOut ==
  [event |-> "timeout", code |-> 0, output |-> "", stderr |-> "",
   kind |-> "Timeout", message |-> "Command timeout"]

Errored(kind, message) ==
  [event |-> "error", code |-> 0, output |-> "", stderr |-> "",
   kind |-> kind, message |-> message]

\* text.includes(needle) for the texts and needles that occur
Includes(text, needle) ==
  \/ needle = "NOT_FOUND" /\ text = "NOT_FOUND"
  \/ needle = "closed" /\ text \in {"Connection closed", "sysupgrade: lock file closed"}

\* executeSSHCommand: resolves with the trimmed stdout, or rejects
executeSSHCommand(session) ==
  IF session.event = "timeout" THEN [ok |-> FALSE, value |-> "Command timeout"]
  ELSE IF session.event = "error" THEN [ok |-> FALSE, value |-> session.message]
  ELSE IF session.code = 0 \/ session.output # ""
  THEN [ok |-> TRUE, value |-> session.output]
  ELSE [ok |-> FALSE,
        value |-> IF session.stderr # "" THEN session.stderr
                  ELSE "Command exited with code 1"]

\* the kind of the error a session raises: a remote exit code other than 0
\* with no stdout is a failed command
ErrorKind(session) ==
  IF session.event = "close" THEN "CommandFailed" ELSE session.kind

\* a download that reports the image present whatever happened
downloadFirmware_AlwaysTrue(dev) ==
  [downloaded |-> TRUE, commands |-> <<"rut_fota --download_fw">>]

\* downloadFirmware: the download command, then the file check; commands are
\* the commands issued
downloadFirmware(dev) ==
  LET start == executeSSHCommand(dev.download)
      checkFile == executeSSHCommand(dev.downloadCheck)
  IN IF ~start.ok
     THEN [downloaded |-> FALSE, commands |-> <<"rut_fota --download_fw">>]
     ELSE [downloaded |-> checkFile.ok /\ ~Includes(checkFile.value, "NOT_FOUND"),
           commands |-> <<"rut_fota --download_fw", "ls -la /tmp/firmware.img">>]

\* performUpdate with the session of each command it issues; commands are the
\* commands issued, in order (not a field of the returned object)
performUpdate_commands(dev) ==
  LET fileCheck == executeSSHCommand(dev.fileCheck)
      download == downloadFirmware(dev)
      missing == Includes(fileCheck.value, "NOT_FOUND")
      c1 == <<"cat /etc/version", "ls -la /tmp/firmware.img">>
      c2 == IF missing THEN c1 \o download.commands ELSE c1
      verify == executeSSHCommand(dev.verify)
      c3 == Append(c2, "sysupgrade -T /tmp/firmware.img")
      upgrade == executeSSHCommand(dev.upgrade)
      c4 == Append(c3, "sysupgrade -c /tmp/firmware.img")
  IN IF ~fileCheck.ok
     THEN [success |-> FALSE, error |-> fileCheck.value, commands |-> c1]
     ELSE IF missing /\ ~download.downloaded
     THEN [success |-> FALSE, error |-> "Firmware download failed", commands |-> c2]
     ELSE IF ~verify.ok
     THEN [success |-> FALSE, error |-> "Firmware image verification failed",
           commands |-> c3]
     ELSE IF ~upgrade.ok /\ ~Includes(upgrade.value, "closed")
     THEN [success |-> FALSE, error |-> "Upgrade command failed", commands |-> c4]
     ELSE [success |-> TRUE, error |-> NULL, commands |-> c4]

FileCheckSessions ==
  {Closed(0, "NOT_FOUND", ""), Closed(0, "-rw-r--r-- /tmp/firmware.img", ""), TimedOut}

DownloadSessions == {Closed(0, "", ""), Closed(1, "", "download error")}

DownloadCheckSessions ==
  {Closed(0, "NOT_FOUND", ""), Closed(0, "-rw-r--r-- /tmp/firmware.img", "")}

VerifySessions ==
  {Closed(0, "", ""), Closed(1, "", "Image check failed"),
   Closed(1, "Image check failed", ""), TimedOut}

\* the upgrade command: it returns; the connection is closed by the reboot;
\* the timer fires; the login is refused; the command fails with a message
\* on stderr
UpgradeSessions ==
  {Closed(0, "", ""), Errored("ConnectionClosed", "Connection closed"), TimedOut,
   Errored("AuthFailed", "All configured authentication methods failed"),
   Closed(1, "", "sysupgrade: lock file closed"), Closed(1, "", "")}

DeviceSessions ==
  [fileCheck : FileCheckSessions, download : DownloadSessions,
   downloadCheck : DownloadCheckSessions, verify : VerifySessions,
   upgrade : UpgradeSessions]

Call_performUpdate(dev) ==
  /\ libCall.pc = "idle"
  /\ libCall' = [fn |-> "performUpdate", pc |-> "returned", input |-> dev,
                 output |-> performUpdate_commands(dev)]
  /\ UNCHANGED <<routers, update_history, batch_jobs, settings, activeBatches, tasks,
                 pipes, scans, events, listeners, globalListeners, conns, delivered,
                 verifyCall, lastResponse>>

NextShell ==
  /\ libCall.pc = "idle"
  /\ \E dev \in DeviceSessions : Call_performUpdate(dev)

SpecShell == Init /\ [][NextShell]_vars

FairSpec == Spec /\ Fairness

FairSpecStream == SpecStream /\ Fairness

(***************************************************************************)
(* Properties.                                                             *)
(***************************************************************************)
\* a start-rollout request of any shape
StartRequest(ids, e) == POST(ids, 1, e, MaxJobs)

\* the events a step appends to the log of job j
NewEventTypes(j) ==
  {events'[j][n].type : n \in (Len(events[j]) + 1)..Len(events'[j])}

\* the rollout tasks that have started and not yet returned
RunningTasks == {j \in DOMAIN tasks : tasks[j].pc # "done"}

\* C1: in every reachable state at most one batch_jobs row has status
\* pending or running.
C1_AtMostOneActiveJob == Cardinality(ActiveJobIds(batch_jobs)) <= 1

\* two job rows, the earlier one cancelled with its task still running, the
\* later one running
C1_Witness ==
  /\ Len(batch_jobs) = 2
  /\ batch_jobs[1].status = "cancelled"
  /\ tasks[1].pc # "done"
  /\ batch_jobs[2].status = "running"

\* C2: at any time at most one rollout task is executing.
C2_AtMostOneRolloutTask == Cardinality(RunningTasks) <= 1

\* C3 as claimed: a start-rollout request issued while a job is active is
\* answered 409 with the active job's id and changes nothing.
C3_ConflictWheneverActive ==
  [][\A ids \in StartLists, e \in BOOLEAN :
       (StartRequest(ids, e) /\ ActiveJobIds(batch_jobs) # {})
         => /\ lastResponse'.status = 409
            /\ lastResponse'.jobId \in ActiveJobIds(batch_jobs)
            /\ UNCHANGED <<batch_jobs, activeBatches, routers, update_history, events>>]_vars

\* C3 amended: a start-rollout request issued while a job is active changes
\* no table, no abort flag and emits no event; it is answered 409 with the
\* active job's id when its candidate list is not empty, and 400 when it is.
C3_RejectedWhenActive ==
  [][\A ids \in StartLists, e \in BOOLEAN :
       (StartRequest(ids, e) /\ ActiveJobIds(batch_jobs) # {})
         => /\ IF Len(Candidates(routers, ids, e)) = 0
               THEN lastResponse'.status = 400
               ELSE /\ lastResponse'.status = 409
                    /\ lastResponse'.jobId \in ActiveJobIds(batch_jobs)
            /\ UNCHANGED <<batch_jobs, activeBatches, routers, update_history, events>>]_vars

\* a request was just answered 409 with the id of the running job
C3_Witness ==
  /\ lastResponse = [op |-> "POST", status |-> 409, jobId |-> 1]
  /\ batch_jobs[1].status = "running"

\* C4: once the abort flag of a job is set, no step emits batch_started or
\* batch_waiting for that job and no step launches a pipeline of it.
C4_NoBatchAfterAbort ==
  [][\A j \in DOMAIN activeBatches :
       activeBatches[j].abort
         => /\ NewEventTypes(j) \cap {"batch_started", "batch_waiting", "router_started"} = {}
            /\ \A k \in DOMAIN pipes[j] :
                 pipes[j][k].pc = "idle" => pipes'[j][k].pc = "idle"
            /\ Len(update_history') = Len(update_history)]_vars

\* a job cancelled during the pause after its first batch: the task has
\* returned and the second candidate was never started
C4_Witness ==
  /\ Len(tasks) >= 1
  /\ \E n \in DOMAIN events[1] : events[1][n].type = "batch_waiting"
  /\ tasks[1].pc = "done"
  /\ Len(pipes[1]) = 2
  /\ pipes[1][1].pc = "done"
  /\ pipes[1][2].pc = "idle"
  /\ batch_jobs[1].status = "cancelled"

\* the pipeline of candidate k of job j is awaiting a remote call
InFlight(j, k) ==
  /\ j \in DOMAIN pipes
  /\ k \in DOMAIN pipes[j]
  /\ pipes[j][k].pc \in {"performUpdate", "verify"}

\* the pipeline of candidate k of job j has returned, its history row is
\* terminal and its router has left `updating`
Settled(j, k) ==
  /\ j \in DOMAIN pipes
  /\ k \in DOMAIN pipes[j]
  /\ pipes[j][k].pc = "done"
  /\ LET h == update_history[pipes[j][k].historyId]
     IN /\ h.status \in {"success", "failed"}
        /\ h.completed_at # NULL
        /\ routers[h.router_id].status \in {"up_to_date", "error"}

\* the position of the first cancel event in the log of job j, 0 if none
CancelledAt(j) ==
  LET ns == {n \in DOMAIN events[j] :
               /\ events[j][n].type = "job_completed"
               /\ events[j][n].data.message = "Job cancelled by user"}
  IN IF ns = {} THEN 0 ELSE CHOOSE n \in ns : \A m \in ns : n <= m

\* C5: a cancel request leaves the pipelines, history rows and router rows
\* as they are, and every pipeline that is in flight while the abort flag is
\* set runs to its end: history row success or failed with completed_at,
\* router up_to_date or error.
C5_InFlightPipelinesFinish ==
  /\ [][\A j \in JobIds :
          (DELETE(j) /\ j \in DOMAIN pipes)
            => /\ pipes' = pipes
               /\ update_history' = update_history
               /\ routers' = routers]_vars
  /\ \A j \in JobIds, k \in 1..MaxIds :
       (InFlight(j, k) /\ AbortRequested(activeBatches, j)) ~> Settled(j, k)

\* a pipeline that was in flight at the cancel request has since succeeded:
\* its router_completed event comes after the cancel event
C5_Witness ==
  /\ CancelledAt(1) > 0
  /\ \E m \in DOMAIN events[1] :
       /\ m > CancelledAt(1)
       /\ events[1][m].type = "router_completed"
  /\ Settled(1, 1)
  /\ update_history[pipes[1][1].historyId].status = "success"

\* the last event in the log of job j after this step
LastEvent(j) == events'[j][Len(events'[j])]

\* C6: every started rollout task returns; the step in which it returns
\* writes status cancelled if the abort flag is set and completed otherwise,
\* writes completed_at, emits job_completed last, and removes the job's
\* listeners and its abort flag.
C6_RolloutTerminates ==
  /\ \A j \in JobIds : (j \in DOMAIN tasks) ~> (j \in DOMAIN tasks /\ tasks[j].pc = "done")
  /\ [][\A j \in DOMAIN tasks :
          (tasks[j].pc # "done" /\ tasks'[j].pc = "done")
            => /\ batch_jobs'[j].status =
                    (IF AbortRequested(activeBatches, j) THEN "cancelled" ELSE "completed")
               /\ batch_jobs'[j].completed_at = NOW
               /\ LastEvent(j).type = "job_completed"
               /\ LastEvent(j).data.status = batch_jobs'[j].status
               /\ j \notin DOMAIN listeners'
               /\ j \notin DOMAIN activeBatches']_vars

\* a rollout of two candidates in two batches has completed while a
\* connection was subscribed to it
C6_Witness ==
  /\ Len(tasks) = 1
  /\ tasks[1].pc = "done"
  /\ Len(tasks[1].routers) = 2
  /\ tasks[1].batchSize = 1
  /\ batch_jobs[1].status = "completed"
  /\ batch_jobs[1].completed_at = NOW
  /\ \E c \in DOMAIN conns : conns[c] = [state |-> "open", scope |-> "job", jobId |-> 1]
  /\ 1 \notin DOMAIN listeners

\* the step ends the pipeline of candidate k of job j in failure
FailsNow(j, k) ==
  /\ pipes'[j][k].pc = "done"
  /\ ~pipes'[j][k].success
  /\ j \in DOMAIN pipes => pipes[j][k].pc # "done"

\* C7: the step in which a pipeline fails marks its history row failed and
\* its router error, leaves the task running and every other pipeline in
\* flight untouched; and a task that has returned without a cancel has
\* started and ended the pipeline of every candidate.
C7_FailureIsLocal ==
  /\ [][\A j \in DOMAIN pipes' : \A k \in DOMAIN pipes'[j] :
          FailsNow(j, k)
            => /\ update_history'[pipes'[j][k].historyId].status = "failed"
               /\ update_history'[pipes'[j][k].historyId].router_id = tasks'[j].routers[k].id
               /\ routers'[tasks'[j].routers[k].id].status = "error"
               /\ tasks'[j].pc # "done"
               /\ \A k2 \in DOMAIN pipes'[j] \ {k} :
                    InFlight(j, k2) => pipes'[j][k2] = pipes[j][k2]]_vars
  /\ [](\A j \in DOMAIN tasks :
          (tasks[j].pc = "done" /\ CancelledAt(j) = 0)
            => \A k \in DOMAIN pipes[j] : pipes[j][k].pc = "done")

\* a completed rollout of two batches of one router whose first pipeline
\* failed and whose second succeeded
C7_Witness ==
  /\ Len(tasks) = 1
  /\ tasks[1].pc = "done"
  /\ batch_jobs[1].status = "completed"
  /\ Len(pipes[1]) = 2
  /\ tasks[1].batchSize = 1
  /\ pipes[1][1].pc = "done" /\ ~pipes[1][1].success
  /\ update_history[pipes[1][1].historyId].status = "failed"
  /\ pipes[1][2].pc = "done" /\ pipes[1][2].success
  /\ update_history[pipes[1][2].historyId].status = "success"

\* C8: a history row has status running exactly when its completed_at is
\* null.
C8_RunningIffNotCompleted ==
  \A h \in DOMAIN update_history :
    (update_history[h].status = "running") <=> (update_history[h].completed_at = NULL)

\* one row still running next to one that has failed
C8_Witness ==
  \E h1, h2 \in DOMAIN update_history :
    /\ update_history[h1].status = "running"
    /\ update_history[h2].status = "failed"
    /\ update_history[h2].completed_at = NOW

\* C9: a history row carries firmware_after only if its status is success.
C9_FirmwareAfterOnlyOnSuccess ==
  \A h \in DOMAIN update_history :
    update_history[h].firmware_after # NULL => update_history[h].status = "success"

\* a row that failed verification (the device came back on another version)
\* next to a row that succeeded
C9_Witness ==
  \E h1, h2 \in DOMAIN update_history :
    /\ update_history[h1].status = "failed"
    /\ update_history[h1].error_message = "Verification failed"
    /\ update_history[h1].firmware_after = NULL
    /\ update_history[h2].status = "success"
    /\ update_history[h2].firmware_after # NULL

\* C10: the step that writes a success row with firmware_after = v leaves
\* the row's router with current_firmware = v, status up_to_date and no
\* available_firmware.
C10_SuccessUpdatesRouter ==
  [][\A h \in DOMAIN update_history :
       (update_history[h].status = "running" /\ update_history'[h].status = "success")
         => LET r == routers'[update_history'[h].router_id]
            IN /\ update_history'[h].firmware_after \in Versions
               /\ r.current_firmware = update_history'[h].firmware_after
               /\ r.status = "up_to_date"
               /\ r.available_firmware = NULL]_vars

\* a success row and its router on the new version
C10_Witness ==
  \E h \in DOMAIN update_history :
    /\ update_history[h].status = "success"
    /\ update_history[h].firmware_before = "v1"
    /\ update_history[h].firmware_after = "v2"
    /\ routers[update_history[h].router_id].current_firmware = "v2"
    /\ routers[update_history[h].router_id].status = "up_to_date"

\* C11: in every reachable state every batch_jobs row has
\* completed_routers + failed_routers <= total_routers.
C11_CountsWithinTotal ==
  \A j \in DOMAIN batch_jobs :
    batch_jobs[j].completed_routers + batch_jobs[j].failed_routers
      <= batch_jobs[j].total_routers

\* a job of two batches of one router, one succeeded and one failed: the
\* counters add up to the total
C11_Witness ==
  /\ Len(batch_jobs) = 1
  /\ batch_jobs[1].batch_size = 1
  /\ batch_jobs[1].total_routers = 2
  /\ batch_jobs[1].completed_routers = 1
  /\ batch_jobs[1].failed_routers = 1

\* the per-router event types
RouterEventTypes == {"router_started", "router_progress", "router_completed", "router_failed"}

\* the number of events of the given type among the first n of a log
CountBefore(log, type, n) ==
  Cardinality({m \in 1..n : log[m].type = type})

\* C12: in the log of every job, in emit order (which is each subscriber's
\* delivery order): a per-router event comes after job_started and inside an
\* open batch, that is after a batch_started whose batch_completed has not
\* been emitted yet; and a job_completed of the started job is the last
\* event of the log.
C12_EventOrder ==
  \A j \in JobIds :
    \A n \in DOMAIN events[j] :
      /\ events[j][n].type \in RouterEventTypes
           => /\ CountBefore(events[j], "job_started", n) >= 1
              /\ CountBefore(events[j], "batch_started", n)
                   = CountBefore(events[j], "batch_completed", n) + 1
      /\ (events[j][n].type = "job_completed"
            /\ CountBefore(events[j], "job_started", n) >= 1)
           => n = Len(events[j])

\* the batch_started events of the batch of log[n] among the first n - 1
\* events of a log
StartsBefore(log, n) ==
  {m \in 1..(n - 1) :
     /\ log[m].type = "batch_started"
     /\ log[m].jobId = log[n].jobId
     /\ log[m].data.batchNumber = log[n].data.batchNumber}

\* the connection was sent the job_started event of job j
SawJobStart(c, j) ==
  \E m \in DOMAIN delivered[c] :
    /\ delivered[c][m].type = "job_started"
    /\ delivered[c][m].jobId = j
    /\ delivered[c][m] # Greeting(j)

OutcomeEvent(e) ==
  \/ e.type \in {"router_completed", "router_failed"}
  \/ e.type = "router_progress" /\ e.data.status = "update_available"

\* the outcome events the scan job has emitted for router r
OutcomesOf(r) ==
  {n \in DOMAIN events[CheckJobId] :
     OutcomeEvent(events[CheckJobId][n]) /\ events[CheckJobId][n].data.routerId = r}

\* C14: when a scan has ended, every router it scanned has exactly one
\* outcome event (router_completed, router_failed or router_progress with
\* status update_available) for each time it was in the scanned list.
C14_OneOutcomePerScannedRouter ==
  \A sid \in DOMAIN scans :
    scans[sid].pc = "done"
      => \A k \in DOMAIN scans[sid].routers :
           LET r == scans[sid].routers[k].id
           IN Cardinality(OutcomesOf(r))
                = Cardinality({k2 \in DOMAIN scans[sid].routers :
                                 scans[sid].routers[k2].id = r})

\* the routers a rollout pipeline is processing: status updating, pipeline
\* awaiting a remote call
BeingUpdated ==
  {r \in RouterIds :
     /\ routers[r].status = "updating"
     /\ \E j \in DOMAIN pipes : \E k \in DOMAIN pipes[j] :
          InFlight(j, k) /\ tasks[j].routers[k].id = r}

\* C15: a step of a scan (a step that changes the scan's state) leaves the
\* row of every router that a rollout is processing as it is.
C15_ScanLeavesUpdatingRouters ==
  [][scans' # scans => \A r \in BeingUpdated : routers'[r] = routers[r]]_vars

\* the batch_waiting events of a log strictly between positions n and p
WaitingBetween(log, n, p) ==
  {m \in (n + 1)..(p - 1) : log[m].type = "batch_waiting"}

\* position p holds the first batch_started after position n
NextStartAfter(log, n, p) ==
  /\ n < p
  /\ log[p].type = "batch_started"
  /\ \A m \in (n + 1)..(p - 1) : log[m].type # "batch_started"

PositionsOf(log, type) == {n \in DOMAIN log : log[n].type = type}

\* the router ids of the router_started events of a log, in log order
RECURSIVE StartedIds(_)
StartedIds(log) ==
  IF log = <<>> THEN <<>>
  ELSE (IF Head(log).type = "router_started" THEN <<Head(log).data.routerId>> ELSE <<>>)
       \o StartedIds(Tail(log))

\* C17: a rollout of n candidates with batch size b that has ended without a
\* cancel has emitted ceil(n/b) batch_started and as many batch_completed
\* events, has started the candidates in list order with (m-1)*b of them
\* before the m-th batch_started and at most b in a batch, and has paused
\* ceil(n/b) - 1 times: waitTimeMinutes batch_waiting events per pause, none
\* after the last batch_completed.
C17_BatchCount ==
  \A j \in DOMAIN tasks :
    (tasks[j].pc = "done" /\ CancelledAt(j) = 0)
      => LET log == events[j]
             n == Len(tasks[j].routers)
             b == tasks[j].batchSize
             starts == PositionsOf(log, "batch_started")
             ends == PositionsOf(log, "batch_completed")
             waits == PositionsOf(log, "batch_waiting")
         IN /\ Cardinality(starts) = Ceil(n, b)
            /\ Cardinality(ends) = Ceil(n, b)
            /\ StartedIds(log) = [k \in 1..n |-> tasks[j].routers[k].id]
            /\ \A p \in starts :
                 /\ log[p].data.batchNumber = Cardinality({q \in starts : q <= p})
                 /\ log[p].data.total = Min(b, n - (log[p].data.batchNumber - 1) * b)
                 /\ Cardinality({q \in PositionsOf(log, "router_started") : q < p})
                      = (log[p].data.batchNumber - 1) * b
            /\ Cardinality(waits) = (Ceil(n, b) - 1) * tasks[j].waitTimeMinutes
            /\ \A w \in waits : \E e \in ends : w < e

\* two candidates with batch size 1 and a pause: two batches, one pause
C17_Witness ==
  /\ Len(tasks) = 1
  /\ tasks[1].pc = "done"
  /\ CancelledAt(1) = 0
  /\ Len(tasks[1].routers) = 2
  /\ tasks[1].batchSize = 1
  /\ Cardinality(PositionsOf(events[1], "batch_started")) = 2
  /\ Cardinality(PositionsOf(events[1], "batch_waiting")) = MaxWait

\* C18: a verifyUpdateAfterReboot call with maxRetries = 20 makes at most 20
\* polls; a device that first answers the k-th poll, k <= 20, is reported
\* after exactly k polls with its version, successfully when the version is
\* the expected one or none is expected; a device that answers none of the 20
\* polls gives the timeout failure after exactly 20 polls.
C18_TwentyPolls ==
  verifyCall.pc = "returned"
    => LET d == verifyCall.dev
           r == verifyCall.result
       IN /\ r.polls <= MAX_RETRIES
          /\ d.at <= MAX_RETRIES
               => /\ r.polls = d.at
                  /\ r.newVersion = d.version
                  /\ r.success = (verifyCall.expectedVersion = NULL
                                    \/ d.version = verifyCall.expectedVersion)
          /\ d.at > MAX_RETRIES
               => /\ r.polls = MAX_RETRIES
                  /\ ~r.success
                  /\ r.newVersion = NULL
                  /\ r.error = "Router did not come back online after update"

\* the device answers the 20th poll with the expected version
C18_Witness ==
  /\ verifyCall.pc = "returned"
  /\ verifyCall.dev.at = MAX_RETRIES
  /\ verifyCall.expectedVersion = verifyCall.dev.version
  /\ verifyCall.result.success
  /\ verifyCall.result.polls = MAX_RETRIES

\* C19: a restart of the process leaves no batch job pending or running, so
\* that getActive() finds no job.
C19_RestartCancelsJobs ==
  [][Restart => /\ \A j \in DOMAIN batch_jobs' :
                     batch_jobs'[j].status \notin {"pending", "running"}
                /\ batchJobDb_getActive(batch_jobs') = 0]_vars

\* C20: a restart of the process leaves no router in status updating and no
\* update_history row in status running.
C20_RestartClosesUpdates ==
  [][Restart => /\ \A id \in DOMAIN routers' : routers'[id].status # "updating"
                /\ \A h \in DOMAIN update_history' :
                     update_history'[h].status # "running"]_vars

\* the numeric value of the four digit groups a firmware string ends with
VersionTuple(fw) == [i \in 1..4 |-> parseInt(MatchVersion(fw)[i])]

\* a is greater than b in lexicographic order of 4-tuples of numbers
TupleGreater(a, b) ==
  \E i \in 1..4 : a[i] > b[i] /\ \A k \in 1..(i - 1) : a[k] = b[k]

\* C21: when the current firmware and the table entry of its device family
\* both end in a four-part numeric version, isUpdateAvailable answers
\* available = TRUE exactly when the latest 4-tuple is greater than the
\* current one in lexicographic numeric order; equal versions are not an
\* update, and two versions are never updates of each other.
C21_AvailableIffGreater ==
  (libCall.fn = "isUpdateAvailable" /\ libCall.pc = "returned")
    => LET current == libCall.input.currentFirmware
           table == libCall.input.table
       IN (current \in FourPartFirmwares
             /\ current.prefix \in DOMAIN table
             /\ table[current.prefix] \in FourPartFirmwares)
           => LET latest == table[current.prefix]
                  back == firmwareVersionDb_isUpdateAvailable(
                            [p \in {current.prefix} |-> current], latest)
              IN /\ libCall.output.available
                      = TupleGreater(VersionTuple(latest), VersionTuple(current))
                 /\ VersionTuple(latest) = VersionTuple(current)
                      => ~libCall.output.available
                 /\ ~(libCall.output.available /\ back.available)

\* 00.01.00.01 on the device, 0.1.1.0 in the table: an update, decided by the
\* third digit group
C21_Witness ==
  /\ libCall.fn = "isUpdateAvailable"
  /\ libCall.pc = "returned"
  /\ libCall.input.currentFirmware = Fw("RUT9", <<<<0, 0>>, <<0, 1>>, <<0, 0>>, <<0, 1>>>>)
  /\ "RUT9" \in DOMAIN libCall.input.table
  /\ libCall.input.table["RUT9"] = Fw("RUT9", <<<<0>>, <<1>>, <<1>>, <<0>>>>)
  /\ libCall.output.available

\* C22: running insertMany twice with the same list leaves the routers table
\* in the same state as running it once.
C22_InsertManyIdempotent ==
  (libCall.fn = "insertMany" /\ libCall.pc = "returned")
    => libCall.output.twice = libCall.output.once

\* how many times x occurs in the sequence q
Occurrences(q, x) == Cardinality({i \in DOMAIN q : q[i] = x})

\* C23: whichever callbacks throw, emit calls every listener of the event's
\* job once and every global listener once, calls no listener of another
\* job, and no error leaves emit.
C23_ThrowingSubscriberIsIsolated ==
  (libCall.fn = "emit" /\ libCall.pc = "returned")
    => LET in == libCall.input
           ofJob == in.listeners[in.jobId]
       IN /\ ~libCall.output.threw
          /\ \A c \in Callbacks :
               Occurrences(libCall.output.calls, c)
                 = Occurrences(ofJob, c) + Occurrences(in.globalListeners, c)

\* callback 1 throws; callback 2 of the same job and the global callback 3
\* are called after it
C23_Witness ==
  /\ libCall.fn = "emit"
  /\ libCall.pc = "returned"
  /\ libCall.input.throwing = {1}
  /\ libCall.input.jobId = 1
  /\ libCall.input.listeners[1] = <<1, 2>>
  /\ libCall.input.globalListeners = <<3>>
  /\ libCall.output.calls = <<1, 2, 3>>

RECURSIVE OfJob(_, _)
\* the events of job j in a stream, in stream order
OfJob(log, j) ==
  IF log = <<>> THEN <<>>
  ELSE (IF Head(log).jobId = j THEN <<Head(log)>> ELSE <<>>) \o OfJob(Tail(log), j)

\* C24: what a connection has been sent of a job, after its greeting, is a
\* run of consecutive events of that job in emit order: the events emitted
\* while it was subscribed, none missing, none out of order.
C24_DeliveryInEmitOrder ==
  \A c \in DOMAIN delivered :
    delivered[c] # <<>>
      => \A j \in JobIds :
           LET got == OfJob(Tail(delivered[c]), j)
           IN \E a \in 1..(Len(events[j]) + 1) :
                /\ a + Len(got) - 1 <= Len(events[j])
                /\ got = SubSeq(events[j], a, a + Len(got) - 1)

\* a connection that joined after the job had started has been sent four of
\* its events
C24_Witness ==
  \E c \in DOMAIN delivered :
    /\ Len(delivered[c]) >= 5
    /\ Len(OfJob(Tail(delivered[c]), 1)) >= 4
    /\ delivered[c][2].type # "job_started"
    /\ delivered[c][2] # delivered[c][3]

\* the type of an event, with the status of a router_progress
Kind(e) ==
  IF e.type = "router_progress" THEN <<e.type, e.data.status>> ELSE <<e.type>>

\* C25: a rollout of one router that has ended with the router updated and
\* without a cancel has emitted exactly job_started, batch_started,
\* router_started, router_progress(downloading), router_progress(rebooting),
\* router_completed, batch_completed, job_progress(progress = 100) and
\* job_completed(status = completed), in this order; the router is
\* up_to_date and its history row is success.
C25_HappyPathSequence ==
  \A j \in DOMAIN tasks :
    (/\ tasks[j].pc = "done"
     /\ CancelledAt(j) = 0
     /\ Len(tasks[j].routers) = 1
     /\ tasks[j].completedCount = 1)
      => LET log == events[j]
             hid == pipes[j][1].historyId
         IN /\ [n \in DOMAIN log |-> Kind(log[n])]
                 = << <<"job_started">>, <<"batch_started">>, <<"router_started">>,
                      <<"router_progress", "downloading">>,
                      <<"router_progress", "rebooting">>, <<"router_completed">>,
                      <<"batch_completed">>, <<"job_progress">>, <<"job_completed">> >>
            /\ \A n \in {3, 4, 5, 6} : log[n].data.routerId = tasks[j].routers[1].id
            /\ log[7].data.completed = 1 /\ log[7].data.failed = 0
            /\ log[8].data.progress = 100
            /\ log[9].data.status = "completed" /\ log[9].data.completed = 1
            /\ routers[tasks[j].routers[1].id].status = "up_to_date"
            /\ update_history[hid].status = "success"
            /\ update_history[hid].router_id = tasks[j].routers[1].id

C25_Witness ==
  /\ Len(tasks) = 1
  /\ tasks[1].pc = "done"
  /\ CancelledAt(1) = 0
  /\ Len(tasks[1].routers) = 1
  /\ tasks[1].completedCount = 1
  /\ Len(events[1]) = 9
  /\ routers[1].status = "up_to_date"

\* the positions up to n of a log that hold an event of one of the types for
\* router r
RouterEventsUpTo(log, types, r, n) ==
  {m \in 1..n : log[m].type \in types /\ log[m].data.routerId = r}

\* the pipelines of job j for router r that have ended with a history row of
\* the given status
EndedWith(j, r, status) ==
  {k \in DOMAIN pipes[j] :
     /\ tasks[j].routers[k].id = r
     /\ pipes[j][k].pc = "done"
     /\ update_history[pipes[j][k].historyId].status = status}

\* C26: in the log of every job and for every router, the router_failed
\* events are as many as the ended pipelines of that router whose history
\* row is failed, the router_completed events as many as those whose row is
\* success, an ended pipeline's row is one or the other, and at every point
\* of the log the terminal events of the router are no more than its
\* router_started events.
C26_OneTerminalEventPerPipeline ==
  \A j \in DOMAIN tasks :
    \A r \in RouterIds :
      LET log == events[j]
      IN /\ Cardinality(RouterEventsUpTo(log, {"router_failed"}, r, Len(log)))
              = Cardinality(EndedWith(j, r, "failed"))
         /\ Cardinality(RouterEventsUpTo(log, {"router_completed"}, r, Len(log)))
              = Cardinality(EndedWith(j, r, "success"))
         /\ \A k \in DOMAIN pipes[j] :
              pipes[j][k].pc = "done"
                => update_history[pipes[j][k].historyId].status \in {"failed", "success"}
         /\ \A n \in DOMAIN log :
              Cardinality(RouterEventsUpTo(log, {"router_failed", "router_completed"}, r, n))
                <= Cardinality(RouterEventsUpTo(log, {"router_started"}, r, n))

\* of two pipelines one has failed and one has succeeded
C26_Witness ==
  /\ Len(tasks) = 1
  /\ EndedWith(1, 1, "success") # {}
  /\ EndedWith(1, 2, "failed") # {}
  /\ RouterEventsUpTo(events[1], {"router_failed"}, 2, Len(events[1])) # {}
  /\ RouterEventsUpTo(events[1], {"router_completed"}, 1, Len(events[1])) # {}

\* the pipelines in flight for router r: started, not ended, with a history
\* row of the router that is still running
PipelinesInFlight(r) ==
  {jk \in {<<j, k>> : j \in DOMAIN pipes, k \in 1..MaxIds} :
     /\ jk[2] \in DOMAIN pipes[jk[1]]
     /\ tasks[jk[1]].routers[jk[2]].id = r
     /\ pipes[jk[1]][jk[2]].pc \in {"performUpdate", "verify"}
     /\ update_history[pipes[jk[1]][jk[2]].historyId].router_id = r
     /\ update_history[pipes[jk[1]][jk[2]].historyId].status = "running"}

\* C27: a router whose status is updating has a rollout pipeline in flight,
\* with a running history row.
C27_UpdatingMeansInFlight ==
  \A r \in RouterIds : routers[r].status = "updating" => PipelinesInFlight(r) # {}

\* router 1 is updating while its pipeline waits for the reboot
C27_Witness ==
  /\ routers[1].status = "updating"
  /\ \E jk \in PipelinesInFlight(1) : pipes[jk[1]][jk[2]].pc = "verify"

\* the command was issued by the call
Issued(command) == \E n \in DOMAIN libCall.output.commands : libCall.output.commands[n] = command

\* C28: when the upgrade command is issued and raises an error, performUpdate
\* reports success if the error is of kind ConnectionClosed and failure if it
\* is of any other kind.
C28_OnlyConnectionClosedIsSuccess ==
  (/\ libCall.fn = "performUpdate"
   /\ libCall.pc = "returned"
   /\ Issued("sysupgrade -c /tmp/firmware.img")
   /\ ~executeSSHCommand(libCall.input.upgrade).ok)
    => libCall.output.success = (ErrorKind(libCall.input.upgrade) = "ConnectionClosed")

\* the position of a command in the commands issued, 0 when it was not issued
PositionOf(command) ==
  LET ns == {n \in DOMAIN libCall.output.commands : libCall.output.commands[n] = command}
  IN IF ns = {} THEN 0 ELSE CHOOSE n \in ns : \A m \in ns : m <= n

\* the image is on the device: the first file check found it, or the download
\* command succeeded and the file check after it found it
ImagePresent(dev) ==
  LET fileCheck == executeSSHCommand(dev.fileCheck)
      start == executeSSHCommand(dev.download)
      checkFile == executeSSHCommand(dev.downloadCheck)
  IN /\ fileCheck.ok
     /\ \/ ~Includes(fileCheck.value, "NOT_FOUND")
        \/ start.ok /\ checkFile.ok /\ ~Includes(checkFile.value, "NOT_FOUND")

\* C29: performUpdate issues the upgrade command only after the verification
\* command, and only if that one succeeded; it issues the verification
\* command only if the image is on the device; a failed download or a failed
\* verification gives a failure without the upgrade command.
C29_FlashOnlyAfterVerifiedImage ==
  (libCall.fn = "performUpdate" /\ libCall.pc = "returned")
    => LET dev == libCall.input
           flash == PositionOf("sysupgrade -c /tmp/firmware.img")
           verify == PositionOf("sysupgrade -T /tmp/firmware.img")
       IN /\ flash > 0 => /\ 0 < verify /\ verify < flash
                          /\ executeSSHCommand(dev.verify).ok
          /\ verify > 0 => ImagePresent(dev)
          /\ (executeSSHCommand(dev.fileCheck).ok /\ ~ImagePresent(dev))
               => /\ ~libCall.output.success
                  /\ libCall.output.error = "Firmware download failed"
                  /\ flash = 0 /\ verify = 0
          /\ (ImagePresent(dev) /\ ~executeSSHCommand(dev.verify).ok)
               => /\ ~libCall.output.success
                  /\ libCall.output.error = "Firmware image verification failed"
                  /\ flash = 0

\* the image was downloaded, verified and flashed
C29_Witness ==
  /\ libCall.fn = "performUpdate"
  /\ libCall.pc = "returned"
  /\ libCall.output.success
  /\ libCall.output.commands
       = <<"cat /etc/version", "ls -la /tmp/firmware.img", "rut_fota --download_fw",
           "ls -la /tmp/firmware.img", "sysupgrade -T /tmp/firmware.img",
           "sysupgrade -c /tmp/firmware.img">>

\* a poll of the call returned a version
PollAnswered == verifyCall.dev.at <= MAX_RETRIES /\ verifyCall.dev.version # NULL

\* C30: reboot verification succeeds exactly when a poll returns a version
\* and either no available firmware was recorded for the router or the
\* version is the recorded one.
C30_SuccessIffExpectedVersion ==
  verifyCall.pc = "returned"
    => (verifyCall.result.success
          <=> /\ PollAnswered
              /\ \/ verifyCall.expectedVersion = NULL
                 \/ verifyCall.dev.version = verifyCall.expectedVersion)

\* the device came back on a version other than the recorded one: no success
C30_Witness ==
  /\ verifyCall.pc = "returned"
  /\ PollAnswered
  /\ verifyCall.expectedVersion = "v2"
  /\ verifyCall.dev.version = "v1"
  /\ verifyCall.result.newVersion = "v1"
  /\ ~verifyCall.result.success

\* the step is the return of a failed reboot verification of pipeline k of
\* job j for a device that answers as dev
VerificationFails(j, k, dev) ==
  /\ VerifyReturns(j, k, dev)
  /\ ~verifyUpdateAfterReboot(tasks[j].routers[k].available_firmware, MAX_RETRIES,
                              dev).success

\* the history row of pipeline k of job j and the last event of the job say
\* that the pipeline failed, with these errors
FailedWith(j, k, error, eventError) ==
  /\ update_history'[pipes[j][k].historyId].status = "failed"
  /\ update_history'[pipes[j][k].historyId].error_message = error
  /\ LastEvent(j).type = "router_failed"
  /\ LastEvent(j).data.routerId = tasks[j].routers[k].id
  /\ LastEvent(j).data.error = eventError

\* C31 as claimed: every failed reboot verification ends the pipeline failed
\* with history error_message and router_failed error "Router did not come
\* back online after update".
C31_RebootFailureMessage ==
  [][\A j \in JobIds, k \in 1..MaxIds, dev \in RebootBehaviours :
       VerificationFails(j, k, dev)
         => FailedWith(j, k, "Router did not come back online after update",
                       "Router did not come back online after update")]_vars

\* What the code does in the case of C31: a failed reboot verification ends
\* the pipeline failed; when no poll returned a version, history error_message and router_failed error
\* are "Router did not come back online after update"; when a version was
\* read that is not the recorded available_firmware, error_message is
\* "Verification failed" and the router_failed event carries no error.
RebootFailureMessages ==
  [][\A j \in JobIds, k \in 1..MaxIds, dev \in RebootBehaviours :
       VerificationFails(j, k, dev)
         => IF dev.at > MAX_RETRIES
            THEN FailedWith(j, k, "Router did not come back online after update",
                            "Router did not come back online after update")
            ELSE FailedWith(j, k, "Verification failed", NULL)]_vars

\* a pipeline has failed on a version that is not the recorded one
FailedOnOtherVersion ==
  \E j \in DOMAIN pipes :
    \E k \in DOMAIN pipes[j] :
      /\ pipes[j][k].pc = "done"
      /\ update_history[pipes[j][k].historyId].error_message = "Verification failed"
      /\ \E n \in DOMAIN events[j] :
           /\ events[j][n].type = "router_failed"
           /\ events[j][n].data.error = NULL

\* the number of the batch that holds position k of job j
BatchNumberOf(j, k) == ((k - 1) \div tasks[j].batchSize) + 1

\* the positions of job j whose pipeline is in flight
InFlightOf(j) == {k \in DOMAIN pipes[j] : InFlight(j, k)}

\* C32: during one rollout at most batchSize pipelines are in flight, and
\* no pipeline of a later batch has started while a pipeline of an earlier
\* batch has not reached its terminal state.
C32_BatchesDoNotOverlap ==
  \A j \in DOMAIN pipes :
    /\ Cardinality(InFlightOf(j)) <= tasks[j].batchSize
    /\ \A k1 \in DOMAIN pipes[j], k2 \in DOMAIN pipes[j] :
         (BatchNumberOf(j, k1) < BatchNumberOf(j, k2) /\ pipes[j][k2].pc # "idle")
           => /\ pipes[j][k1].pc = "done"
              /\ update_history[pipes[j][k1].historyId].status \in {"success", "failed"}

\* batches of one router: the second pipeline is in flight after the first
\* has ended
C32_Witness ==
  /\ 1 \in DOMAIN pipes
  /\ tasks[1].batchSize = 1
  /\ Len(tasks[1].routers) = 2
  /\ pipes[1][1].pc = "done"
  /\ InFlight(1, 2)

\* the positions of scan sid whose probe is awaiting the device
ProbesInFlight(sid) ==
  {k \in DOMAIN scans[sid].checks :
     scans[sid].checks[k].pc \in {"connectivity", "getFirmwareInfo"}}

\* the number of the chunk that holds position k
ChunkNumberOf(k) == ((k - 1) \div CONCURRENT_CHECKS) + 1

\* the step is the end of a chunk of scan sid
ChunkEnds(sid) == ScanBatchResolves(sid)

\* the event the step emits first
FirstNewEvent(j) == events'[j][Len(events[j]) + 1]

\* C33: a scan works in consecutive chunks of 10: at most 10 probes are in
\* flight, no probe of a later chunk has started while a probe of an earlier
\* chunk has not finished, and the job_progress event after chunk k reports
\* the cumulative number of routers checked.
C33_ScanChunks ==
  [][\A sid \in DOMAIN scans' :
       /\ Cardinality({k \in DOMAIN scans'[sid].checks :
                         scans'[sid].checks[k].pc \in {"connectivity", "getFirmwareInfo"}})
            <= 10
       /\ \A k1 \in DOMAIN scans'[sid].checks, k2 \in DOMAIN scans'[sid].checks :
            (ChunkNumberOf(k1) < ChunkNumberOf(k2) /\ scans'[sid].checks[k2].pc # "idle")
              => scans'[sid].checks[k1].pc = "done"
       /\ (sid \in DOMAIN scans /\ ChunkEnds(sid)) =>
            /\ FirstNewEvent(CheckJobId).type = "job_progress"
            /\ FirstNewEvent(CheckJobId).data.completed
                 = Min(10 * ChunkNumberOf(scans[sid].i + 1), Len(scans[sid].routers))]_vars

\* the probe of the eleventh router is in flight after the first chunk's
\* progress report of 10 routers, and later the scan reports all of them
C33_Witness ==
  /\ 1 \in DOMAIN scans
  /\ Len(scans[1].routers) > 10
  /\ \/ /\ 11 \in ProbesInFlight(1)
        /\ \E n \in DOMAIN events[CheckJobId] :
             /\ events[CheckJobId][n].type = "job_progress"
             /\ events[CheckJobId][n].data.completed = 10
     \/ /\ scans[1].pc = "done"
        /\ \E n \in DOMAIN events[CheckJobId] :
             /\ events[CheckJobId][n].type = "job_progress"
             /\ events[CheckJobId][n].data.completed = Len(scans[1].routers)

\* the router of position k of scan sid, after the step
Scanned(sid, k) == scans'[sid].routers[k]

\* the step leaves the check of position k of scan sid done with this result,
\* and the router's row with this status
CheckEnds(sid, k, status) ==
  /\ scans'[sid].checks[k] = [pc |-> "done", status |-> status]
  /\ routers'[Scanned(sid, k).id].status = status

\* the credentials the scan uses for a router: its own, else the global ones
EffectiveCredentials(router) ==
  LET globalCreds == settingsDb_getGlobalCredentials(settings)
  IN [username |-> Or(router.username, globalCreds.username),
      password |-> Or(router.password, globalCreds.password)]

\* C34: the scan persists for each router: error when it has no effective
\* credentials (its own before the global ones), unreachable when the ping
\* fails, error when getInfo throws, update_available when getInfo reports
\* an update and up_to_date otherwise; the ping comes before getInfo, and
\* getInfo is not called when the ping fails.
C34_ScanOutcomes ==
  [][/\ \A ids \in RouterIdLists :
          POST_check(ids) =>
            \A k \in DOMAIN scans'[Len(scans')].checks :
              IF EffectiveCredentials(Scanned(Len(scans'), k)).username = NULL
                 \/ EffectiveCredentials(Scanned(Len(scans'), k)).password = NULL
              THEN CheckEnds(Len(scans'), k, "error")
              ELSE /\ scans'[Len(scans')].checks[k].pc = "connectivity"
                   /\ routers'[Scanned(Len(scans'), k).id]
                        = routers[Scanned(Len(scans'), k).id]
     /\ \A sid \in 1..MaxScans, k \in 1..MaxIds :
          /\ ConnectivityReturns(sid, k, FALSE) => CheckEnds(sid, k, "unreachable")
          /\ ConnectivityReturns(sid, k, TRUE) =>
               /\ scans'[sid].checks[k].pc = "getFirmwareInfo"
               /\ routers' = routers
          /\ CheckThrows(sid, k) => CheckEnds(sid, k, "error")
          /\ \A dev \in FirmwareBehaviours :
               FirmwareInfoReturns(sid, k, dev) =>
                 /\ CheckEnds(sid, k, IF getFirmwareInfo(dev).updateAvailable
                                      THEN "update_available" ELSE "up_to_date")
                 /\ routers'[Scanned(sid, k).id].current_firmware
                      = getFirmwareInfo(dev).current
                 /\ routers'[Scanned(sid, k).id].available_firmware
                      = getFirmwareInfo(dev).available
     /\ \A sid \in DOMAIN scans : \A k \in DOMAIN scans[sid].checks :
          (scans'[sid].checks[k].pc = "getFirmwareInfo"
             /\ scans[sid].checks[k].pc # "getFirmwareInfo")
            => scans[sid].checks[k].pc = "connectivity"]_vars

\* one scan has found a router with an update and another that is
\* unreachable or has no credentials
C34_Witness ==
  /\ 1 \in DOMAIN scans
  /\ \E k \in DOMAIN scans[1].checks :
       scans[1].checks[k] = [pc |-> "done", status |-> "update_available"]
  /\ \E k \in DOMAIN scans[1].checks :
       \/ scans[1].checks[k] = [pc |-> "done", status |-> "unreachable"]
       \/ /\ scans[1].checks[k] = [pc |-> "done", status |-> "error"]
          /\ scans[1].routers[k].username = NULL

\* the bus holds no callback of connection c after the step, job-scoped or
\* global
Unsubscribed(c) ==
  /\ c \notin globalListeners'
  /\ \A j \in DOMAIN listeners' : c \notin listeners'[j]

\* C35: when a subscriber disconnects the gateway unsubscribes and closes:
\* from then on the bus holds no callback of the connection, job-scoped or
\* global, and no event emitted later is forwarded to it.
C35_DisconnectUnsubscribes ==
  [][\A c \in 1..MaxConns :
       /\ Disconnect(c) => (conns'[c].state = "closed" /\ Unsubscribed(c))
       /\ conns[c].state = "closed"
            => (conns'[c].state = "closed" /\ Unsubscribed(c)
                /\ delivered'[c] = delivered[c])]_vars

\* a connection that was sent events of the rollout is closed, and the
\* rollout has emitted its job_completed since
C35_Witness ==
  \E c \in 1..MaxConns :
    /\ conns[c].state = "closed"
    /\ \E n \in DOMAIN delivered[c] : delivered[c][n].type = "router_started"
    /\ \A n \in DOMAIN delivered[c] : delivered[c][n].type # "job_completed"
    /\ \E n \in DOMAIN events[1] : events[1][n].type = "job_completed"

\* the job_completed events emitted for job j so far
JobCompletedEvents(j) == PositionsOf(events[j], "job_completed")

\* C36: over its whole life a rollout job has exactly one job_completed
\* event: never more than one, and one when its task has ended, whether it
\* ended normally or was cancelled, once or several times.
C36_OneJobCompleted ==
  \A j \in DOMAIN tasks :
    /\ Cardinality(JobCompletedEvents(j)) <= 1
    /\ tasks[j].pc = "done" => Cardinality(JobCompletedEvents(j)) = 1

\* What the code does in the case of C36: a rollout that is never cancelled
\* has no job_completed event while its task runs and one when it has ended.
UncancelledJobCompletesOnce ==
  \A j \in DOMAIN tasks :
    CancelledAt(j) = 0
      => Cardinality(JobCompletedEvents(j)) = (IF tasks[j].pc = "done" THEN 1 ELSE 0)

\* a rollout cancelled during a batch has three job_completed events
ThreeJobCompleted ==
  \E j \in DOMAIN tasks : Cardinality(JobCompletedEvents(j)) = 3

\* no pipeline of job j is in flight: no history row the job created is
\* running and no router it processes is updating, unless a pipeline of
\* another job is in flight for the router
NoPipelineInFlight(j) ==
  \A k \in DOMAIN pipes[j] :
    /\ pipes[j][k].pc # "idle" => update_history[pipes[j][k].historyId].status # "running"
    /\ routers[tasks[j].routers[k].id].status = "updating"
         => \E jk \in PipelinesInFlight(tasks[j].routers[k].id) : jk[1] # j

\* C37 as claimed: whenever a job's stored status is completed or cancelled,
\* none of its pipelines is in flight.
C37_TerminalJobHasNoPipeline ==
  \A j \in DOMAIN tasks :
    batch_jobs[j].status \in {"completed", "cancelled"} => NoPipelineInFlight(j)

\* C37 amended: whenever a job's stored status is completed, or is cancelled
\* and its rollout task has ended, none of its pipelines is in flight.
C37_EndedJobHasNoPipeline ==
  \A j \in DOMAIN tasks :
    (\/ batch_jobs[j].status = "completed"
     \/ batch_jobs[j].status = "cancelled" /\ tasks[j].pc = "done")
      => NoPipelineInFlight(j)

\* the task of a job of two routers has ended with the job completed, one
\* of its pipelines successful
C37_Witness ==
  \E j \in DOMAIN tasks :
    /\ tasks[j].pc = "done"
    /\ batch_jobs[j].status = "completed"
    /\ \E k \in DOMAIN pipes[j] : pipes[j][k].pc = "done" /\ pipes[j][k].success
    /\ Len(tasks[j].routers) = 2

\* C38: a job's terminal status is stable: a job stored as completed stays
\* completed, and a cancel request for a job id with no activeBatches entry
\* (a finished or unknown job) leaves batch_jobs unchanged and emits no event.
C38_TerminalStatusStable ==
  [][/\ \A j \in DOMAIN batch_jobs :
          batch_jobs[j].status = "completed" => batch_jobs'[j].status = "completed"
     /\ \A j \in JobIds :
          (DELETE(j) /\ j \notin DOMAIN activeBatches)
            => (batch_jobs' = batch_jobs /\ events' = events)]_vars

\* What the code does in the case of C38: every step but the cancel command
\* leaves a completed job completed.
OnlyCancelChangesCompleted ==
  [][\A j \in DOMAIN batch_jobs :
       (batch_jobs[j].status = "completed" /\ batch_jobs'[j].status # "completed")
         => (DELETE(j) /\ batch_jobs'[j].status = "cancelled"
             /\ LastEvent(j).type = "job_completed")]_vars

\* a job that had ended completed is stored as cancelled
CompletedJobCancelled ==
  \E j \in DOMAIN tasks :
    /\ batch_jobs[j].status = "cancelled"
    /\ CancelledAt(j) # 0
    /\ \E n \in 1..(CancelledAt(j) - 1) :
         /\ events[j][n].type = "job_completed"
         /\ events[j][n].data.status = "completed"

\* the running history rows of router r
RunningRows(r) ==
  {h \in DOMAIN update_history :
     update_history[h].router_id = r /\ update_history[h].status = "running"}

\* C39: at most one rollout pipeline is in flight for a router: no router
\* has two running history rows at once, whatever ids the start request
\* lists and however start and cancel interleave.
C39_OnePipelinePerRouter ==
  \A r \in RouterIds :
    /\ Cardinality(RunningRows(r)) <= 1
    /\ Cardinality(PipelinesInFlight(r)) <= 1

\* What the code does in the case of C39: a rollout whose routers are all
\* different has at most one pipeline in flight for each of them.
DistinctRoutersOnePipeline ==
  \A j \in DOMAIN tasks :
    (\A k1 \in DOMAIN pipes[j], k2 \in DOMAIN pipes[j] :
       k1 # k2 => tasks[j].routers[k1].id # tasks[j].routers[k2].id)
      => \A r \in RouterIds :
           Cardinality({jk \in PipelinesInFlight(r) : jk[1] = j}) <= 1

\* two pipelines of one rollout are in flight for the same router
TwoPipelinesOneRouter ==
  \E j \in DOMAIN tasks, r \in RouterIds :
    Cardinality({jk \in PipelinesInFlight(r) : jk[1] = j}) = 2

\* the history rows job j wrote that have the given status
RowsOfJob(j, status) ==
  {pipes[j][k].historyId : k \in {k \in DOMAIN pipes[j] : pipes[j][k].pc # "idle"}}
    \cap {h \in DOMAIN update_history : update_history[h].status = status}

\* the rollout of job j has ended completed and was never cancelled
EndedCompleted(j) ==
  /\ tasks[j].pc = "done"
  /\ batch_jobs[j].status = "completed"
  /\ CancelledAt(j) = 0

\* the last job_progress event of job j
LastProgress(j) ==
  events[j][CHOOSE p \in PositionsOf(events[j], "job_progress") :
              \A q \in PositionsOf(events[j], "job_progress") : q <= p]

\* C40: when a rollout has ended completed, with the abort flag never set,
\* its job row has completed_routers + failed_routers = total_routers,
\* completed_routers is the number of success history rows it wrote,
\* failed_routers the number of failed ones, and its last job_progress event
\* reports progress 100.
C40_CompletedJobAccounts ==
  \A j \in DOMAIN tasks :
    EndedCompleted(j) =>
      /\ batch_jobs[j].completed_routers + batch_jobs[j].failed_routers
           = batch_jobs[j].total_routers
      /\ batch_jobs[j].completed_routers = Cardinality(RowsOfJob(j, "success"))
      /\ batch_jobs[j].failed_routers = Cardinality(RowsOfJob(j, "failed"))
      /\ PositionsOf(events[j], "job_progress") # {}
      /\ LastProgress(j).data.progress = 100

\* a rollout of one batch of two routers has ended completed, one router
\* updated and one failed
C40_Witness ==
  \E j \in DOMAIN tasks :
    /\ EndedCompleted(j)
    /\ tasks[j].batchSize = 2
    /\ Cardinality(RowsOfJob(j, "success")) = 1
    /\ Cardinality(RowsOfJob(j, "failed")) = 1
    /\ LastProgress(j).data.progress = 100

====
